---- MODULE Spec2Model ----
(***************************************************************************)
(* A model of the WebSocket session of voyager (src/voyager/ws_tab.py):    *)
(* WebSocketTab.connect / disconnect / send and the background receive     *)
(* loop, run as asyncio tasks on one event loop.                           *)
(*                                                                         *)
(* asyncio is cooperative: a task runs alone from the moment the loop      *)
(* dispatches it until its next suspending await.  One action of the model *)
(* is one such step: the loop takes the head of its FIFO `ready` and the   *)
(* task runs, line by line, until it suspends or ends.  An await on the    *)
(* transport (connect, close, send, recv) may complete without suspending  *)
(* (an injected transport such as the one in src/tests/conftest.py does)   *)
(* or suspend and be completed later by the transport.                     *)
(*                                                                         *)
(* Task ids: t > 0 is a caller task running connect/disconnect/send,       *)
(* -h is the receive-loop task created for connection handle h.            *)
(*                                                                         *)
(* A second part models the request executor (src/voyager/http_client.py)  *)
(* and the send() of the GraphQL and HTTP tabs (src/voyager/tabs.py) with  *)
(* the application's save_state and the state file; its specification is   *)
(* SpecHttp.                                                               *)
(*                                                                         *)
(* Three more parts model functions that are called directly: the state    *)
(* store (src/voyager/storage.py: save_state and load_last_state on a      *)
(* state file of any content; specification SpecStore), the introspection  *)
(* builder (src/voyager/introspection.py, with the schema load of the Docs *)
(* tab in src/voyager/docs_tab.py; specification SpecIntro) and the        *)
(* parsers of src/voyager/parsing.py (specification SpecParse).            *)
(*                                                                         *)
(* SpecLive is the session with weak fairness on the event loop and on the *)
(* transport's connect and close, for the progress of the busy flag.       *)
(***************************************************************************)
EXTENDS Integers, Sequences, FiniteSets, TLC

MaxTasks == 3     \* calls of connect / disconnect / send in a behaviour
MaxHandles == 3   \* connections the transport opens
MaxMsgs == 2     \* inbound messages the transport delivers
MaxCalls == 2    \* calls of the request executor and of the tabs' send()
MaxClock == 1    \* readings of the event loop's clock

VARIABLES
  busy,        \* WebSocketTab.busy (reactive)
  connected,   \* WebSocketTab.connected (reactive)
  connection,  \* self.connection: a handle id, 0 for None
  recvTask,    \* self._recv_task: h for the loop task of handle h, 0 for None
  status,      \* text of the status widget
  log,         \* lines of the log widget
  tasks,       \* caller tasks: position and locals of each call
  rx,          \* receive-loop tasks, one per handle
  ready,       \* the event loop's ready queue
  nLaunched,   \* calls made so far
  nOpened,     \* handles the transport has returned
  closeCalls,  \* closeCalls[h]: times close() was invoked on handle h
  nMsgs,       \* messages the transport has delivered, numbered in arrival order
  display,     \* TRUE when the widgets' texts (status, log) are recorded
  tornDown,    \* TRUE when a disconnect() has returned and no connect() was
               \* invoked since
  httpx,       \* TRUE when http_client imported the httpx module
  clock,       \* asyncio's loop.time()
  tabs,        \* the GraphQL and the HTTP tab: busy flag, status, response, fields
  calls,       \* calls of the request executor and of the tabs' send()
  stateFile,   \* the state file of storage.py
  nCalls,      \* calls made so far
  docs,        \* the Docs tab: the last schema load, its result and its tree
  treeCall,    \* the last direct call of add_types_to_tree
  reprCall,    \* the last direct call of _type_repr
  parseCall,   \* the last direct call of parsing.py: argument and result
  storeCall,   \* the last direct call of storage.py: arguments and result
  lastSaved    \* per section, the spec last saved under it since the
               \* document was last written whole

wsVars == <<busy, connected, connection, recvTask, status, log, tasks, rx, ready,
            nLaunched, nOpened, closeCalls, nMsgs, display, tornDown>>

httpVars == <<httpx, clock, tabs, calls, stateFile, nCalls>>

\* The variables of the parts that are called directly: the storage and
\* the introspection.
storeVars == <<storeCall, lastSaved>>
introVars == <<docs, treeCall, reprCall>>
pureVars == <<storeVars, introVars, parseCall>>

vars == <<wsVars, httpVars, pureVars>>

Tasks == 1..MaxTasks
Handles == 1..MaxHandles
Ops == {"connect", "disconnect", "send"}

----------------------------------------------------------------------------
(* Inputs read from the widgets at the start of connect(): the endpoint    *)
(* as urlparse splits it, the header block, and whether a transport        *)
(* (ws_connect, self.ws_connect or the websockets module) is there.        *)

WsOk == [scheme |-> "ws", netloc |-> "echo.example", rest |-> ""]
WssOk == [scheme |-> "wss", netloc |-> "echo.example", rest |-> ""]
BadScheme == [scheme |-> "invalid", netloc |-> "example", rest |-> ""]
NoScheme == [scheme |-> "", netloc |-> "", rest |-> "echo.example"]
NoHost == [scheme |-> "ws", netloc |-> "", rest |-> "/path"]
Empty == [scheme |-> "", netloc |-> "", rest |-> ""]

Inputs ==
  { [endpoint |-> WssOk, headers |-> "object", transport |-> TRUE],
    [endpoint |-> Empty, headers |-> "nocolon", transport |-> TRUE],
    [endpoint |-> BadScheme, headers |-> "object", transport |-> TRUE],
    [endpoint |-> NoScheme, headers |-> "nocolon", transport |-> FALSE],
    [endpoint |-> NoHost, headers |-> "object", transport |-> TRUE],
    [endpoint |-> WsOk, headers |-> "nocolon", transport |-> FALSE],
    [endpoint |-> WsOk, headers |-> "lines", transport |-> FALSE] }

NoInput == [endpoint |-> Empty, headers |-> "", transport |-> FALSE]

\* A faulty _validate_ws_url that checks the host and not the scheme.
ValidateWsUrlAnyScheme(ep) ==
  IF ep.netloc = "" THEN "Missing host in URL." ELSE ""

\* _validate_ws_url: "" when the URL is accepted, else the ValueError text.
ValidateWsUrl(ep) ==
  IF ep.scheme \notin {"ws", "wss"}
    THEN "Unsupported URL scheme: " \o (IF ep.scheme = "" THEN "missing" ELSE ep.scheme)
  ELSE IF ep.netloc = "" THEN "Missing host in URL."
  ELSE ""

\* parse_headers as connect() sees it: "" on success, else the ValueError text.
ParseHeadersError(hb) ==
  IF hb = "nocolon" THEN "Invalid header line: 'NoColonHere'" ELSE ""

\* A faulty connect() that goes on to the transport when none is installed.
ConnectRejectionIgnoresTransport(inp) ==
  IF inp.endpoint = Empty THEN "Please provide an endpoint."
  ELSE IF ValidateWsUrl(inp.endpoint) # "" THEN ValidateWsUrl(inp.endpoint)
  ELSE IF ParseHeadersError(inp.headers) # "" THEN ParseHeadersError(inp.headers)
  ELSE ""

\* The early returns of connect() before it sets busy, in the code's order:
\* "" when connect() goes on to the transport, else the status it shows.
ConnectRejection(inp) ==
  IF inp.endpoint = Empty THEN "Please provide an endpoint."
  ELSE IF ValidateWsUrl(inp.endpoint) # "" THEN ValidateWsUrl(inp.endpoint)
  ELSE IF ParseHeadersError(inp.headers) # "" THEN ParseHeadersError(inp.headers)
  ELSE IF ~inp.transport THEN "Install the 'websockets' package to use this tab."
  ELSE ""

\* A faulty gate that lets a connect() through while busy is set.
ConnectGateOpen(b) == FALSE

\* The gate at the top of connect(): TRUE when the call returns at once.
ConnectGate(b) == b

\* The gate at the top of send().
SendGate(b) == b

----------------------------------------------------------------------------
(* Reactive watchers: Textual runs watch_<name> synchronously when the     *)
(* value changes.                                                          *)

WatchBusy(old, new, st) ==
  IF old = new THEN st ELSE IF new THEN "Working..." ELSE ""

WatchConnected(old, new, st) ==
  IF old = new THEN st ELSE IF new THEN "Connected." ELSE "Disconnected."

AppendLog(l, line) == Append(l, line)

----------------------------------------------------------------------------
(* The text of the message area, as the sequence of its characters. *)

Messages == { <<" ", "h", "i", "\n">> }

Whitespace == {" ", "\t", "\n", "\r"}

RECURSIVE LStrip(_)
LStrip(m) == IF m # <<>> /\ Head(m) \in Whitespace THEN LStrip(Tail(m)) ELSE m

RECURSIVE RStrip(_)
RStrip(m) ==
  IF m # <<>> /\ m[Len(m)] \in Whitespace THEN RStrip(SubSeq(m, 1, Len(m) - 1)) ELSE m

\* str.strip()
Strip(m) == RStrip(LStrip(m))

RECURSIVE Text(_)
Text(m) == IF m = <<>> THEN "" ELSE Head(m) \o Text(Tail(m))

\* Line 225: the log line of a sent message.
SentLine(m) == "Sent: " \o (IF Strip(m) = <<>> THEN "<empty>" ELSE Text(Strip(m)))

\* A faulty line 218 that trims the message before it sends it.
SendPayloadStripped(m) == Strip(m)

\* Line 218: what send() hands to the transport's send.
SendPayload(m) == m

RecvLine(m) == "Received: " \o ToString(m)

----------------------------------------------------------------------------
(* Task records.  pc is where the task resumes.  did, out, cout, shown,    *)
(* inp, h0 record what the call has done so far; a returned call keeps     *)
(* its record (pc = "ret") until the next action of the model.             *)

NoTask == [op |-> "none", pc |-> "idle", inSend |-> FALSE, inConnect |-> FALSE,
           h |-> 0, h0 |-> 0, did |-> {}, out |-> "", cout |-> "", shown |-> "",
           inp |-> NoInput, msg |-> <<>>, sent |-> <<>>]

DoneTask == [NoTask EXCEPT !.pc = "done"]

Settle(ts) == [t \in Tasks |-> IF ts[t].pc = "ret" THEN DoneTask ELSE ts[t]]

NoRx == [state |-> "none", mustCancel |-> FALSE, res |-> 0, waiters |-> <<>>,
         why |-> ""]

EntryPc(op) ==
  CASE op = "connect" -> "c_enter"
    [] op = "disconnect" -> "d_begin"
    [] op = "send" -> "s_enter"

\* WebSocketTab.__init__: the session after construction.
InitIdle ==
  /\ busy = FALSE
  /\ connected = FALSE
  /\ connection = 0
  /\ recvTask = 0
  /\ status = ""
  /\ log = <<>>
  /\ tasks = [t \in Tasks |-> NoTask]
  /\ rx = [h \in Handles |-> NoRx]
  /\ ready = <<>>
  /\ nLaunched = 0
  /\ nOpened = 0
  /\ closeCalls = [h \in Handles |-> 0]
  /\ nMsgs = 0
  /\ tornDown = FALSE

\* The session a first connect() leaves once its receive loop awaits recv():
\* the state InitIdle reaches by Launch("connect"), StepConnect, StepRecvLoop
\* when the transport connects and the save succeeds.  Starting here as well
\* lets the MaxTasks calls of a behaviour all act on an open session.
InitOpen ==
  /\ busy = FALSE
  /\ connected = TRUE
  /\ connection = 1
  /\ recvTask = 1
  /\ status = ""
  /\ log = IF display THEN <<"Connected to endpoint">> ELSE <<>>
  /\ tasks = [t \in Tasks |-> NoTask]
  /\ rx = [h \in Handles |-> IF h = 1 THEN [NoRx EXCEPT !.state = "waiting"] ELSE NoRx]
  /\ ready = <<>>
  /\ nLaunched = 0
  /\ nOpened = 1
  /\ closeCalls = [h \in Handles |-> 0]
  /\ nMsgs = 0
  /\ tornDown = FALSE

----------------------------------------------------------------------------
(* The request executor (src/voyager/http_client.py) and the GraphQL and   *)
(* HTTP tabs that call it (src/voyager/tabs.py), with the application's    *)
(* save_state (src/voyager/app.py) and the state file                      *)
(* (src/voyager/storage.py).  A call is a coroutine: it runs from its      *)
(* start to the await of the transport, and from the transport's answer    *)
(* to its end.                                                             *)

HttpOk == [scheme |-> "http", netloc |-> "api.example", rest |-> ""]
HttpsOk == [scheme |-> "https", netloc |-> "api.example", rest |-> ""]
FtpUrl == [scheme |-> "ftp", netloc |-> "example.com", rest |-> ""]

Endpoints == {HttpOk, HttpsOk, FtpUrl, WsOk, NoScheme, Empty}

\* The widgets a tab's send() reads, lines 172-176 and 371-375.  The HTTP
\* tab has no query and no variables field and ignores them.
TabInputs ==
  { [endpoint |-> HttpsOk, query |-> "query", variables |-> "object",
     headers |-> "object", verify |-> TRUE],
    [endpoint |-> HttpOk, query |-> "query", variables |-> "",
     headers |-> "lines", verify |-> FALSE],
    [endpoint |-> FtpUrl, query |-> "query", variables |-> "object",
     headers |-> "object", verify |-> TRUE],
    [endpoint |-> Empty, query |-> "query", variables |-> "object",
     headers |-> "object", verify |-> TRUE],
    [endpoint |-> HttpsOk, query |-> "", variables |-> "object",
     headers |-> "object", verify |-> TRUE],
    [endpoint |-> HttpsOk, query |-> "query", variables |-> "array",
     headers |-> "nocolon", verify |-> FALSE],
    [endpoint |-> HttpsOk, query |-> "query", variables |-> "",
     headers |-> "nocolon", verify |-> TRUE] }

\* config.py: the fields of a tab built from the defaults (an https
\* endpoint, an empty query, "{}" as variables, no headers, verification on).
DefaultFields ==
  [endpoint |-> HttpsOk, query |-> "", variables |-> "object",
   headers |-> "object", verify |-> TRUE]

\* What a transport answers: the status code and the body text.
Answers == { [status |-> 200, text |-> "ok"], [status |-> 418, text |-> "teapot"] }

NoAnswer == [status |-> 0, text |-> ""]

\* What a transport can return: httpx and a requester return any response;
\* urlopen (line 122) returns a response below 400 and raises on the others.
TierAnswers(tier) ==
  IF tier = "urllib" THEN {a \in Answers : a.status < 400} ELSE Answers

NoEnvelope == [status |-> 0, text |-> "", duration_ms |-> -1]

\* A faulty _validate_url that accepts every endpoint.
ValidateUrlAccept(ep) == ""

\* _validate_url, lines 135-138: "" when accepted, else the ValueError text.
ValidateUrl(ep) ==
  IF ep.scheme \notin {"http", "https"}
    THEN "Unsupported URL scheme: " \o (IF ep.scheme = "" THEN "missing" ELSE ep.scheme)
    ELSE ""

\* A faulty dispatch that prefers the httpx client to the requester.
SelectTransportHttpxFirst(requester, hx) ==
  IF hx THEN "httpx" ELSE IF requester THEN "requester" ELSE "urllib"

\* Lines 26-31 and 74-79: the transport a call awaits.
SelectTransport(requester, hx) ==
  IF requester THEN "requester" ELSE IF hx THEN "httpx" ELSE "urllib"

\* A faulty executor that falls back to the built-in client when another
\* transport raises.
AfterRaiseFallback(tier) == IF tier = "urllib" THEN "" ELSE "urllib"

\* Lines 26-31: an exception of the awaited transport is not caught: no
\* other transport is tried ("" for none).
AfterRaise(tier) == ""

\* Lines 32-33 and 80-81: the envelope of an answer.
Envelope(answer, start, end) ==
  [status |-> answer.status, text |-> answer.text, duration_ms |-> (end - start) * 1000]

\* parse_json_object as GraphQLTab.send sees it: "" or the ValueError text.
ParseVariablesError(raw) ==
  IF raw = "array" THEN "Expected a JSON object." ELSE ""

\* format_response, parsing.py lines 42-52 (the bodies here are not JSON).
FormatResponse(env) ==
  "Status: " \o ToString(env.status) \o "\nTime: " \o ToString(env.duration_ms)
    \o ".0 ms\nBody:\n" \o env.text

\* A faulty send() that dispatches the request whatever the header block.
TabRejectionIgnoresHeaders(k, f) ==
  IF f.endpoint = Empty
    THEN (IF k = "graphql" THEN "Please provide an endpoint URL." ELSE "Please provide a URL.")
  ELSE IF k = "graphql" /\ f.query = ""
    THEN "Query is empty. Add a GraphQL query or mutation."
  ELSE IF k = "graphql" /\ f.variables # "" /\ ParseVariablesError(f.variables) # ""
    THEN "Variables are not valid JSON:\n" \o ParseVariablesError(f.variables)
  ELSE ""

\* The early returns of send() before it sets busy: "" when the request is
\* dispatched, else the text put in the response pane.
TabRejection(k, f) ==
  IF f.endpoint = Empty
    THEN (IF k = "graphql" THEN "Please provide an endpoint URL." ELSE "Please provide a URL.")
  ELSE IF k = "graphql" /\ f.query = ""
    THEN "Query is empty. Add a GraphQL query or mutation."
  ELSE IF k = "graphql" /\ f.variables # "" /\ ParseVariablesError(f.variables) # ""
    THEN "Variables are not valid JSON:\n" \o ParseVariablesError(f.variables)
  ELSE IF ParseHeadersError(f.headers) # "" THEN ParseHeadersError(f.headers)
  ELSE ""

\* A faulty gate that lets a send() through while the tab is busy.
TabSendGateOpen(b) == FALSE

\* Lines 169 and 368: the gate at the top of a tab's send().
TabSendGate(b) == b

\* GraphQLTab.watch_busy / HttpTab.watch_busy.
TabWatchBusy(old, new, st) ==
  IF old = new THEN st ELSE IF new THEN "Sending request..." ELSE ""

TlsWarning == "Warning: TLS verification disabled for this request."

\* Lines 209-210 and 396-397.
TlsStatus(verify, st) == IF verify THEN st ELSE TlsWarning

----------------------------------------------------------------------------
(* The state file and the application's save_state. *)

Sections == {"graphql", "http", "websocket"}

\* A value of the JSON document as Python holds it: a dict (v maps its keys
\* to values) or anything else (a str, a bool, None, a list).
Dict(d) == [t |-> "dict", v |-> d]
Other(x) == [t |-> "other", v |-> x]
IsDict(j) == j.t = "dict"
EmptyDict == << >>

\* The state file: absent, or a text that json.loads parses to `data`, or a
\* text it does not parse.
NoFile == [exists |-> FALSE, parses |-> FALSE, data |-> Other("")]
BrokenFile == [exists |-> TRUE, parses |-> FALSE, data |-> Other("{broken")]
WriteText(data) == [exists |-> TRUE, parses |-> TRUE, data |-> data]

\* json.loads(path.read_text()): raises on a text that is not JSON.
JsonLoads(file) == [raised |-> ~file.parses, data |-> file.data]

\* storage._spec_to_dict: asdict(spec), one key per field.
SpecToDict(spec) == [k \in DOMAIN spec |-> Other(spec[k])]

\* A slip of save_state: a save without a section keeps the document's keys.
SaveStateKeepsSections(file, spec, section) ==
  LET payload == SpecToDict(spec)
      read == JsonLoads(file)
      existing == IF file.exists /\ ~read.raised /\ IsDict(read.data)
                    THEN read.data.v ELSE EmptyDict
  IN  IF section # ""
        THEN WriteText(Dict([k \in DOMAIN existing \cup {section} |->
                               IF k = section THEN Dict(payload) ELSE existing[k]]))
        ELSE WriteText(Dict([k \in DOMAIN existing \cup DOMAIN payload |->
                               IF k \in DOMAIN payload THEN payload[k] ELSE existing[k]]))

\* A slip of save_state: the document is rebuilt from the saved section alone.
SaveStateForgetful(file, spec, section) ==
  IF section # ""
    THEN WriteText(Dict([k \in {section} |-> Dict(SpecToDict(spec))]))
    ELSE WriteText(Dict(SpecToDict(spec)))

\* storage.save_state: with a section the document keeps its other keys
\* (a file that is absent, unparseable or not a dict counts as {}); without
\* one the document is the payload.
SaveState(file, spec, section) ==
  LET payload == SpecToDict(spec)
      read == JsonLoads(file)
      existing == IF file.exists /\ ~read.raised /\ IsDict(read.data)
                    THEN read.data.v ELSE EmptyDict
  IN  IF section # ""
        THEN WriteText(Dict([k \in DOMAIN existing \cup {section} |->
                               IF k = section THEN Dict(payload) ELSE existing[k]]))
        ELSE WriteText(Dict(payload))

\* A slip of _select_section: the whole document stands in for any section.
SelectSectionLegacyAll(data, section) ==
  IF ~IsDict(data) THEN EmptyDict
  ELSE IF section # "" /\ section \in DOMAIN data.v /\ IsDict(data.v[section])
    THEN data.v[section].v
  ELSE data.v

\* storage._select_section: the dict under the section; for "graphql" the
\* whole document (the format before sections); without a section the whole
\* document; {} otherwise.
SelectSection(data, section) ==
  IF ~IsDict(data) THEN EmptyDict
  ELSE IF section # "" /\ section \in DOMAIN data.v /\ IsDict(data.v[section])
    THEN data.v[section].v
  ELSE IF section = "graphql" THEN data.v
  ELSE IF section = "" THEN data.v
  ELSE EmptyDict

\* What a call of load_last_state gives when an exception leaves it.
Raised == [raised |-> TRUE]

\* A slip of load_last_state: json.loads outside the try.
LoadLastStateNoCatch(file, default, section) ==
  IF ~file.exists THEN default
  ELSE IF JsonLoads(file).raised \/ ~IsDict(JsonLoads(file).data) THEN Raised
  ELSE [k \in DOMAIN default |->
          IF k \in DOMAIN SelectSection(JsonLoads(file).data, section)
            THEN SelectSection(JsonLoads(file).data, section)[k].v ELSE default[k]]

\* A slip of load_last_state: the defaults win over the saved fields.
LoadLastStateDefaultsWin(file, default, section) == default

\* storage.load_last_state: the default when the file is absent or does not
\* parse; else the default's fields, each replaced by the payload's value
\* when the payload has that key.
LoadLastState(file, default, section) ==
  IF ~file.exists THEN default
  ELSE LET read == JsonLoads(file) IN
    IF read.raised THEN default
    ELSE LET payload == SelectSection(read.data, section)
         IN  [k \in DOMAIN default |->
                IF k \in DOMAIN payload THEN payload[k].v ELSE default[k]]

\* GraphQLVoyager.save_state(self, spec): the arguments it takes after self.
AppSaveStateParams == 1

\* Lines 271 and 448: self.app.save_state(spec, "<section>").
PersistArgs(k, f) == <<f, k>>

\* GraphQLVoyager.save_state called with args: a call with the wrong number
\* of arguments raises TypeError before the body runs; the body saves
\* without a section and swallows every exception of the storage.
AppSaveState(file, args, written) ==
  IF Len(args) # AppSaveStateParams THEN [raised |-> TRUE, file |-> file]
  ELSE [raised |-> FALSE,
        file |-> IF written THEN SaveState(file, args[1], "") ELSE file]

----------------------------------------------------------------------------
(* Direct calls of storage.py. *)

\* config.DEFAULT_TABS[0], DEFAULT_HTTP_TAB and DEFAULT_WS_TAB.
DefaultTabSpec(kind) ==
  CASE kind = "graphql" ->
         [id |-> "main", title |-> "Voyager",
          endpoint |-> "https://nginx.pm-repository.orb.local/graphql",
          query |-> "", variables |-> "{}\n", headers |-> "", verify_tls |-> TRUE]
    [] kind = "http" ->
         [id |-> "http", title |-> "HTTP", url |-> "https://httpbin.org/get",
          method |-> "GET", body |-> "", headers |-> "", verify_tls |-> TRUE]
    [] kind = "websocket" ->
         [id |-> "ws", title |-> "WebSocket", url |-> "wss://echo.websocket.events",
          message |-> "{\"message\": \"hello\"}", headers |-> "", verify_tls |-> TRUE]

\* A spec of each class that differs from the default in every field.
EditedTabSpec(kind) ==
  CASE kind = "graphql" ->
         [id |-> "g2", title |-> "Mine", endpoint |-> "http://saved",
          query |-> "{ me }", variables |-> "{}", headers |-> "A: b", verify_tls |-> FALSE]
    [] kind = "http" ->
         [id |-> "h2", title |-> "Mine", url |-> "http://saved",
          method |-> "POST", body |-> "{}", headers |-> "A: b", verify_tls |-> FALSE]
    [] kind = "websocket" ->
         [id |-> "w2", title |-> "Mine", url |-> "ws://saved",
          message |-> "hi", headers |-> "A: b", verify_tls |-> FALSE]

\* The class of the specs passed with a section; app.py passes a
\* GraphQLTabSpec when it names no section ("").
SpecKind(section) == IF section = "" THEN "graphql" ELSE section

TabSpecs(section) == {DefaultTabSpec(SpecKind(section)), EditedTabSpec(SpecKind(section))}

\* State files the storage may find: none, a text that is not JSON, a JSON
\* list, and a document edited by hand (a section that is not an object, a
\* key that is no section, a key named like a field).
ListFile == WriteText(Other("[]"))
EditedFile ==
  WriteText(Dict([k \in {"http", "theme", "headers"} |->
                    CASE k = "http" -> Other("off")
                      [] k = "theme" -> Other("dark")
                      [] k = "headers" -> Other("X-Old: 1")]))
InitialFiles == <<NoFile, BrokenFile, ListFile, EditedFile>>

----------------------------------------------------------------------------
(* introspection.py: the introspection response turned into types, and the *)
(* types put into a tree.                                                  *)

\* More values of a JSON document: a list, a str, None, a number.
List(s) == [t |-> "list", v |-> s]
Str(x) == [t |-> "str", v |-> x]
Num(x) == [t |-> "int", v |-> x]
Null == [t |-> "null", v |-> ""]

\* Python's truth value of a JSON value (`if x:`, `not x`, `x or y`).
Truthy(j) ==
  CASE j.t = "dict" -> DOMAIN j.v # {}
    [] j.t = "list" -> Len(j.v) # 0
    [] j.t = "str" -> Len(j.v) # 0
    [] j.t = "int" -> j.v # 0
    [] j.t = "null" -> FALSE
    [] OTHER -> TRUE

\* d.get(key, default) of a dict d.
Get(d, key, default) == IF key \in DOMAIN d.v THEN d.v[key] ELSE default

\* The kinds _collect_types keeps, and the first names of the details.
KeptKinds == {"OBJECT", "INTERFACE", "INPUT_OBJECT"}
DetailsLimit == 50

\* An exception (AttributeError, TypeError) left the function.
RaisedResult == [raised |-> TRUE, success |-> FALSE, status |-> "",
                 details |-> [of |-> "none", lines |-> << >>], types |-> << >>]

\* IntrospectionResult(success, status, details, types)
IntrospectionResult(success, st, details, types) ==
  [raised |-> FALSE, success |-> success, status |-> st, details |-> details,
   types |-> types]

\* A slip of _type_repr: LIST and NON_NULL wrappers swapped.
RECURSIVE TypeReprSwapped(_)
TypeReprSwapped(node) ==
  IF ~Truthy(node) THEN "Unknown"
  ELSE LET name == Get(node, "name", Null)
           kind == Get(node, "kind", Null)
           ofType == Get(node, "ofType", Null)
       IN  IF Truthy(ofType)
             THEN LET inner == TypeReprSwapped(ofType)
                  IN  IF kind = Str("LIST") THEN inner \o "!"
                      ELSE IF kind = Str("NON_NULL") THEN "[" \o inner \o "]"
                      ELSE inner
             ELSE IF Truthy(name) THEN name.v
             ELSE IF Truthy(kind) THEN kind.v
             ELSE "Unknown"

\* introspection._type_repr, of a node that is a dict or None.
RECURSIVE TypeRepr(_)
TypeRepr(node) ==
  IF ~Truthy(node) THEN "Unknown"
  ELSE LET name == Get(node, "name", Null)
           kind == Get(node, "kind", Null)
           ofType == Get(node, "ofType", Null)
       IN  IF Truthy(ofType)
             THEN LET inner == TypeRepr(ofType)
                  IN  IF kind = Str("NON_NULL") THEN inner \o "!"
                      ELSE IF kind = Str("LIST") THEN "[" \o inner \o "]"
                      ELSE inner
             ELSE IF Truthy(name) THEN name.v
             ELSE IF Truthy(kind) THEN kind.v
             ELSE "Unknown"

\* introspection._format_arg
FormatArg(arg) == Get(arg, "name", Null).v \o ": " \o TypeRepr(Get(arg, "type", Null))

\* ", ".join(_format_arg(arg) for arg in args_raw if arg.get("name")), from
\* the i-th argument on.
RECURSIVE ArgsStr(_, _, _)
ArgsStr(args, i, first) ==
  IF i > Len(args) THEN ""
  ELSE IF ~Truthy(Get(args[i], "name", Null)) THEN ArgsStr(args, i + 1, first)
  ELSE (IF first THEN "" ELSE ", ") \o FormatArg(args[i]) \o ArgsStr(args, i + 1, FALSE)

\* x or [] / x or ""
OrEmptyList(j) == IF Truthy(j) THEN j ELSE List(<< >>)
OrEmptyStr(j) == IF Truthy(j) THEN j.v ELSE ""

\* introspection._collect_fields, from the i-th field on: a field that is
\* not a dict has no .get and the loop raises.
RECURSIVE CollectFields(_, _, _)
CollectFields(raw, i, fields) ==
  IF raw.t # "list" THEN [raised |-> TRUE, fields |-> << >>]
  ELSE IF i > Len(raw.v) THEN [raised |-> FALSE, fields |-> fields]
  ELSE LET f == raw.v[i] IN
    IF ~IsDict(f) THEN [raised |-> TRUE, fields |-> << >>]
    ELSE IF ~Truthy(Get(f, "name", Null)) THEN CollectFields(raw, i + 1, fields)
    ELSE CollectFields(raw, i + 1,
           Append(fields,
                  [name |-> Get(f, "name", Null).v,
                   type_repr |-> TypeRepr(Get(f, "type", Null)),
                   description |-> OrEmptyStr(Get(f, "description", Null)),
                   args_str |-> ArgsStr(OrEmptyList(Get(f, "args", Null)).v, 1, TRUE)]))

\* name.startswith("__"), a name being the tuple of its characters.
StartsWithReserved(name) == Len(name) >= 2 /\ name[1] = "_" /\ name[2] = "_"

\* A slip of _collect_types: the reserved names are kept.
KeepsReserved(name) == FALSE

\* The test of line 83 on a name that is a str.
DropsName(name) == StartsWithReserved(name)

\* Lines 81-86 on one raw type: what the loop does with it.  A raw type
\* that is not a dict has no .get, a name that is a number has no
\* .startswith, fields that are no list of dicts raise in _collect_fields.
TypeOutcome(t) ==
  IF ~IsDict(t) THEN "raise"
  ELSE LET name == Get(t, "name", Null)
           kind == Get(t, "kind", Null)
       IN  IF ~Truthy(name) THEN "skip"
           ELSE IF name.t # "str" THEN "raise"
           ELSE IF DropsName(name.v) THEN "skip"
           ELSE IF ~(kind.t = "str" /\ kind.v \in KeptKinds) THEN "skip"
           ELSE IF CollectFields(OrEmptyList(Get(t, "fields", Null)), 1, << >>).raised
             THEN "raise"
           ELSE "keep"

IsKept(t) == TypeOutcome(t) = "keep"

\* Lines 87-89: the TypeInfo of a raw type that is kept.
TypeInfo(t) ==
  [name |-> Get(t, "name", Null).v, kind |-> Get(t, "kind", Null).v,
   description |-> OrEmptyStr(Get(t, "description", Null)),
   fields |-> CollectFields(OrEmptyList(Get(t, "fields", Null)), 1, << >>).fields]

\* introspection._collect_types: the loop over the raw types, which an
\* exception on any of them leaves; the kept ones in their order.
CollectTypes(raw) ==
  IF raw.t # "list" \/ \E i \in 1..Len(raw.v) : TypeOutcome(raw.v[i]) = "raise"
    THEN [raised |-> TRUE, types |-> << >>]
    ELSE LET kept == SelectSeq(raw.v, IsKept)
         IN  [raised |-> FALSE, types |-> [i \in 1..Len(kept) |-> TypeInfo(kept[i])]]

\* [t.name for t in types][:n]
TypeNames(types, n) ==
  [i \in 1..(IF Len(types) < n THEN Len(types) ELSE n) |-> Text(types[i].name)]

\* A slip of build_introspection_result: every type name in the details.
DetailsNamesAll(types) == TypeNames(types, Len(types))

\* Line 58: type_names[:50]
DetailsNames(types) == TypeNames(types, DetailsLimit)

\* introspection.build_introspection_result.  The details are the lines of
\* the text; of the pretty-printed errors only the origin is kept.
BuildIntrospectionResult(response) ==
  LET raw == [of |-> "body", lines |-> <<response.text>>]
      http == IntrospectionResult(FALSE, "HTTP " \o ToString(response.status), raw, << >>)
  IN
  IF ~response.parses
    THEN IntrospectionResult(FALSE, "Could not parse JSON: " \o response.error, raw, << >>)
  ELSE IF response.status # 200 THEN http
  ELSE LET data == response.json IN
    IF ~IsDict(data) THEN RaisedResult
    ELSE IF Truthy(Get(data, "errors", Null))
      THEN IntrospectionResult(FALSE, "GraphQL errors",
                               [of |-> "errors", lines |-> << >>], << >>)
    ELSE LET d == Get(data, "data", Dict(EmptyDict)) IN
      IF ~IsDict(d) THEN RaisedResult
      ELSE LET schema == Get(d, "__schema", Dict(EmptyDict)) IN
        IF ~IsDict(schema) THEN RaisedResult
        ELSE LET types_raw == Get(schema, "types", Null) IN
          IF ~Truthy(types_raw)
            THEN IntrospectionResult(FALSE, "No types returned from schema.", raw, << >>)
          ELSE LET collected == CollectTypes(types_raw) IN
            IF collected.raised THEN RaisedResult
            ELSE IF collected.types = << >>
              THEN IntrospectionResult(FALSE,
                     "Schema loaded but no object/interface/input types.", raw, << >>)
            ELSE LET summary == "Schema loaded: " \o ToString(Len(collected.types))
                                  \o " types."
                 IN  IntrospectionResult(TRUE, summary,
                       [of |-> "summary",
                        lines |-> <<summary, "">> \o DetailsNames(collected.types)],
                       collected.types)

\* str.lower() of the kinds of the GraphQL type system.
Lower(kind) ==
  CASE kind = "OBJECT" -> "object"
    [] kind = "INTERFACE" -> "interface"
    [] kind = "INPUT_OBJECT" -> "input_object"
    [] kind = "SCALAR" -> "scalar"
    [] kind = "ENUM" -> "enum"
    [] kind = "UNION" -> "union"
    [] OTHER -> kind

\* A slip of add_types_to_tree: the kind as it came.
TypeLabelAsIs(type_info) == Text(type_info.name) \o " (" \o type_info.kind \o ")"

\* Line 70: f"{type_info.name} ({type_info.kind.lower()})"
TypeLabel(type_info) == Text(type_info.name) \o " (" \o Lower(type_info.kind) \o ")"

\* Lines 72-73: the node of a field and its data.
FieldNode(field) ==
  [label |-> field.name \o ": " \o field.type_repr,
   data |-> [description |-> field.description, type |-> field.type_repr,
             args_str |-> field.args_str]]

\* Lines 70-73: the node of a type under the root, its fields under it.
TypeNode(type_info) ==
  [label |-> TypeLabel(type_info),
   data |-> [description |-> type_info.description],
   children |-> [j \in 1..Len(type_info.fields) |-> FieldNode(type_info.fields[j])]]

\* The loop of lines 69-74: each type is added after the children the root
\* already has, and counted.
AddTypes(children, types) ==
  [added |-> Len(types),
   children |-> children \o [i \in 1..Len(types) |-> TypeNode(types[i])]]

\* introspection.add_types_to_tree: a tree is whether it has a root and the
\* root's children.
AddTypesToTree(tree, types) ==
  IF ~tree.root THEN [added |-> 0, tree |-> tree]
  ELSE LET done == AddTypes(tree.children, types)
       IN  [added |-> done.added, tree |-> [tree EXCEPT !.children = done.children]]

\* Sinks: an object without a root, a tree with an empty root, a tree whose
\* root has a child.
NoRootTree == [root |-> FALSE, children |-> << >>]
EmptyTree == [root |-> TRUE, children |-> << >>]
GrownTree ==
  [root |-> TRUE,
   children |-> <<[label |-> "Old (object)", data |-> [description |-> ""],
                   children |-> << >>]>>]
Trees == <<NoRootTree, EmptyTree, GrownTree>>

\* Type references of an introspection response.
Named(kind, name) == Dict([kind |-> Str(kind), name |-> Str(name), ofType |-> Null])
Wrapper(kind, inner) == Dict([kind |-> Str(kind), name |-> Null, ofType |-> inner])
StringType == Named("SCALAR", "String")
TypeNodes ==
  <<Null,
    Dict(EmptyDict),
    StringType,
    Wrapper("NON_NULL", StringType),
    Wrapper("LIST", StringType),
    Wrapper("NON_NULL", Wrapper("LIST", StringType)),
    Wrapper("LIST", Wrapper("NON_NULL", StringType)),
    Wrapper("NON_NULL", Wrapper("LIST", Wrapper("NON_NULL", Named("OBJECT", "User")))),
    Dict([name |-> Str("String")]),
    Dict([kind |-> Str("SCALAR")]),
    Dict([kind |-> Str("ENUM"), name |-> Null, ofType |-> Null]),
    Dict([description |-> Str("no name, no kind")]),
    Wrapper("LIST", Dict([kind |-> Str("SCALAR")])),
    Wrapper("NON_NULL", Dict([description |-> Str("no name, no kind")]))>>

\* Raw types of a schema.
RawType(name, kind, fields) ==
  Dict([name |-> Str(name), kind |-> Str(kind), description |-> Null,
        fields |-> fields])
HelloField ==
  Dict([name |-> Str("hello"), description |-> Str("says hi"), type |-> StringType,
        args |-> List(<<Dict([name |-> Str("name"), type |-> StringType])>>)])
UsersField ==
  Dict([name |-> Str("users"), description |-> Null,
        type |-> Wrapper("NON_NULL", Wrapper("LIST", Named("OBJECT", "User"))),
        args |-> List(<<Dict([name |-> Str("first"),
                              type |-> Wrapper("NON_NULL", Named("SCALAR", "Int"))]),
                        Dict([name |-> Null, type |-> StringType]),
                        Dict([name |-> Str("after")])>>)])
QueryType ==
  Dict([name |-> Str(<<"Q", "u", "e", "r", "y">>), kind |-> Str("OBJECT"),
        description |-> Str("Root"),
        fields |-> List(<<HelloField, Dict([description |-> Str("no name")]), UsersField>>)])
NodeType == RawType(<<"N", "o", "d", "e">>, "INTERFACE", Null)
FilterType == RawType(<<"F", "i", "l", "t", "e", "r">>, "INPUT_OBJECT", List(<< >>))
IgnoredType == RawType(<<"I", "g", "n", "o", "r", "e", "d">>, "SCALAR", Null)
ReservedType == RawType(<<"_", "_", "T", "y", "p", "e">>, "OBJECT", Null)
UnderscoreType == RawType(<<"_", "x">>, "OBJECT", Null)
NamelessType == Dict([kind |-> Str("OBJECT")])
NumberedType(i) == RawType(<<"T", ToString(i)>>, "OBJECT", Null)

\* A response body: its text, whether json.loads parses it (its message when
\* not) and the value it parses to.
Unparsed(text, error) == [text |-> text, parses |-> FALSE, error |-> error, json |-> Null]
Parsed(text, json) == [text |-> text, parses |-> TRUE, error |-> "", json |-> json]
Schema(text, types) ==
  Parsed(text, Dict([data |-> Dict([__schema |-> Dict([types |-> types])])]))

Bodies ==
  <<Unparsed("fail", "Expecting value: line 1 column 1 (char 0)"),
    Unparsed("{not json",
             "Expecting property name enclosed in double quotes: line 1 column 2 (char 1)"),
    Parsed("[]", List(<< >>)),
    Parsed("null", Null),
    Parsed("{}", Dict(EmptyDict)),
    Parsed("{errors: [boom]}", Dict([errors |-> List(<<Dict([message |-> Str("boom")])>>)])),
    Parsed("{errors: []}", Dict([errors |-> List(<< >>)])),
    Parsed("{errors: [boom], data: {__schema: {types: [Query]}}}",
           Dict([errors |-> List(<<Dict([message |-> Str("boom")])>>),
                 data |-> Dict([__schema |-> Dict([types |-> List(<<QueryType>>)])])])),
    Parsed("{data: null}", Dict([data |-> Null])),
    Parsed("{data: {}}", Dict([data |-> Dict(EmptyDict)])),
    Parsed("{data: {__schema: null}}", Dict([data |-> Dict([__schema |-> Null])])),
    Parsed("{data: {__schema: {}}}", Dict([data |-> Dict([__schema |-> Dict(EmptyDict)])])),
    Schema("{data: {__schema: {types: null}}}", Null),
    Schema("{data: {__schema: {types: []}}}", List(<< >>)),
    Schema("{data: {__schema: {types: [Ignored, __Type, nameless]}}}",
           List(<<IgnoredType, ReservedType, NamelessType>>)),
    Schema("{data: {__schema: {types: [Query, Ignored]}}}",
           List(<<QueryType, IgnoredType>>)),
    Schema("{data: {__schema: {types: [__Type, Node, Ignored, Filter, nameless, _x, Query]}}}",
           List(<<ReservedType, NodeType, IgnoredType, FilterType, NamelessType,
                  UnderscoreType, QueryType>>)),
    Schema("{data: {__schema: {types: [null]}}}", List(<<Null>>)),
    Schema("{data: {__schema: {types: [{name: 1, kind: OBJECT}]}}}",
           List(<<Dict([name |-> Num(1), kind |-> Str("OBJECT")])>>)),
    Schema("{data: {__schema: {types: [T1 .. T50]}}}",
           List([i \in 1..DetailsLimit |-> NumberedType(i)])),
    Schema("{data: {__schema: {types: [Ignored, T1 .. T51]}}}",
           List(<<IgnoredType>> \o [i \in 1..(DetailsLimit + 1) |-> NumberedType(i)]))>>

\* The statuses of the responses.
Statuses == {200, 404, 500}

Responses ==
  {[status |-> st, text |-> Bodies[i].text, parses |-> Bodies[i].parses,
    error |-> Bodies[i].error, json |-> Bodies[i].json] :
     st \in Statuses, i \in DOMAIN Bodies}

\* Lists of TypeInfo passed to add_types_to_tree.
TypeLists ==
  <<<< >>,
    CollectTypes(List(<<QueryType>>)).types,
    CollectTypes(List(<<NodeType, FilterType, QueryType>>)).types>>

NoDocs == [response |-> [status |-> 0, text |-> "", parses |-> FALSE, error |-> "",
                         json |-> Null],
           result |-> RaisedResult, children |-> << >>, status |-> "", escaped |-> FALSE,
           loaded |-> FALSE]
NoTreeCall == [called |-> FALSE, tree |-> NoRootTree, types |-> << >>, added |-> 0,
               after |-> NoRootTree]
NoReprCall == [called |-> FALSE, node |-> Null, repr |-> ""]

----------------------------------------------------------------------------
(* parsing.py: parse_json_object and parse_headers.  A text is the tuple   *)
(* of its characters.                                                      *)

MaxLines == 3    \* lines of a header block

\* The texts of the model that are JSON, and what json.loads makes of them;
\* every other text of the model is not JSON.
JsonTexts ==
  <<[text |-> <<"{", "}">>, json |-> Dict(EmptyDict)],
    [text |-> <<"{", "\"", "a", "\"", ":", " ", "1", "}">>, json |-> Dict([a |-> Num(1)])],
    [text |-> <<"{", "\"", "A", "u", "t", "h", "o", "r", "i", "z", "a", "t", "i", "o", "n", "\"", ":", " ", "\"", "t", "o", "k", "e", "n", "\"", ",", " ", "\"", "X", "\"", ":", " ", "1", "}">>,
     json |-> Dict([Authorization |-> Str("token"), X |-> Num(1)])],
    [text |-> <<"[", "\"", "a", "\"", ",", " ", "\"", "b", "\"", "]">>, json |-> List(<<Str("a"), Str("b")>>)],
    [text |-> <<"n", "u", "l", "l">>, json |-> Null],
    [text |-> <<"1">>, json |-> Num(1)],
    [text |-> <<"\"", "x", "\"">>, json |-> Str("x")],
    [text |-> <<"t", "r", "u", "e">>, json |-> Other(TRUE)]>>

\* Texts that are not JSON.
BrokenTexts == <<<<"{", "b", "r", "o", "k", "e", "n">>, <<"N", "o", "C", "o", "l", "o", "n", "H", "e", "r", "e">>, <<"{", "\"", "a", "\"", ":", " ", "1">>>>

\* Texts that are blank.
BlankTexts == <<<< >>, <<" ", "\n", " ">>, <<" ", " ">>>>

\* json.loads(raw): the value, or JSONDecodeError.
JsonLoadsText(raw) ==
  IF \E i \in DOMAIN JsonTexts : JsonTexts[i].text = raw
    THEN [raised |-> FALSE,
          value |-> JsonTexts[CHOOSE i \in DOMAIN JsonTexts : JsonTexts[i].text = raw].json]
    ELSE [raised |-> TRUE, value |-> Null]

\* What a parse gives: the dict, or the exception that leaves it.
Parsed0(d) == [raised |-> FALSE, error |-> "", value |-> d]
ParseError(e) == [raised |-> TRUE, error |-> e, value |-> EmptyDict]

\* A slip of parse_json_object: any JSON value is returned.
ParseJsonObjectAnyValue(raw) ==
  IF Strip(raw) = << >> THEN Parsed0(EmptyDict)
  ELSE IF JsonLoadsText(Strip(raw)).raised THEN ParseError("JSONDecodeError")
  ELSE IF ~IsDict(JsonLoadsText(Strip(raw)).value) THEN Parsed0(EmptyDict)
  ELSE Parsed0(JsonLoadsText(Strip(raw)).value.v)

\* parsing.parse_json_object: json.loads raises JSONDecodeError, a
\* ValueError, which nothing here catches.
ParseJsonObject(raw) ==
  LET text == Strip(raw) IN
  IF text = << >> THEN Parsed0(EmptyDict)
  ELSE LET parsed == JsonLoadsText(text) IN
    IF parsed.raised THEN ParseError("JSONDecodeError")
    ELSE IF ~IsDict(parsed.value) THEN ParseError("Expected a JSON object.")
    ELSE Parsed0(parsed.value.v)

\* str(v) of a JSON value that is not a container.
PyStr(j) ==
  CASE j.t = "str" -> j.v
    [] j.t = "int" -> ToString(j.v)
    [] j.t = "null" -> "None"
    [] OTHER -> IF j.v = TRUE THEN "True" ELSE "False"

\* raw.splitlines(), the line ends being "\n".
RECURSIVE SplitLines(_, _)
SplitLines(raw, line) ==
  IF raw = << >> THEN (IF line = << >> THEN << >> ELSE <<line>>)
  ELSE IF Head(raw) = "\n" THEN <<line>> \o SplitLines(Tail(raw), << >>)
  ELSE SplitLines(Tail(raw), Append(line, Head(raw)))

\* ":" in line
HasColon(line) == \E i \in 1..Len(line) : line[i] = ":"

\* A slip of parse_header_lines: the line split on its last colon.
SplitAtLastColon(before, rest) ==
  LET i == CHOOSE i \in 1..Len(rest) :
             rest[i] = ":" /\ \A j \in (i + 1)..Len(rest) : rest[j] # ":"
  IN  [key |-> before \o SubSeq(rest, 1, i - 1), value |-> SubSeq(rest, i + 1, Len(rest))]

\* line.split(":", 1) of a line that has a colon, reading from the left.
RECURSIVE SplitAtColon(_, _)
SplitAtColon(before, rest) ==
  IF Head(rest) = ":" THEN [key |-> before, value |-> Tail(rest)]
  ELSE SplitAtColon(Append(before, Head(rest)), Tail(rest))

\* repr(line) of a line without quotes.
Repr(line) == "'" \o Text(line) \o "'"

\* The loop of parse_header_lines from the i-th line on.
RECURSIVE HeaderLines(_, _, _)
HeaderLines(lines, i, headers) ==
  IF i > Len(lines) THEN Parsed0(headers)
  ELSE IF Strip(lines[i]) = << >> THEN HeaderLines(lines, i + 1, headers)
  ELSE IF ~HasColon(lines[i]) THEN ParseError("Invalid header line: " \o Repr(lines[i]))
  ELSE LET kv == SplitAtColon(<< >>, lines[i])
           key == Text(Strip(kv.key))
       IN  HeaderLines(lines, i + 1,
                       [k \in DOMAIN headers \cup {key} |->
                          IF k = key THEN Text(Strip(kv.value)) ELSE headers[k]])

\* parsing.parse_header_lines
ParseHeaderLines(raw) == HeaderLines(SplitLines(raw, << >>), 1, EmptyDict)

\* parsing.parse_headers: a JSON object gives its items as strings, JSON
\* that is no object raises, and a text that is not JSON is read as lines.
ParseHeaders(raw) ==
  LET text == Strip(raw) IN
  IF text = << >> THEN Parsed0(EmptyDict)
  ELSE LET parsed == JsonLoadsText(text) IN
    IF parsed.raised THEN ParseHeaderLines(text)
    ELSE IF ~IsDict(parsed.value) THEN ParseError("Headers JSON must be an object.")
    ELSE Parsed0([k \in DOMAIN parsed.value.v |-> PyStr(parsed.value.v[k])])

\* Lines of a header block, and the blocks of up to MaxLines of them.
HeaderLineTexts ==
  <<<<"A", ":", " ", "1">>, <<"A", ":", "2">>, <<" ", "B", " ", ":", " ", "x", ":", "y", " ">>, << >>, <<"N", "o", "C", "o", "l", "o", "n", "H", "e", "r", "e">>, <<" ", "b", "a", "d", " ">>>>

RECURSIVE JoinLines(_)
JoinLines(ls) ==
  IF ls = << >> THEN << >>
  ELSE IF Len(ls) = 1 THEN ls[1]
  ELSE ls[1] \o <<"\n">> \o JoinLines(Tail(ls))

HeaderBlocks ==
  UNION { [1..n -> DOMAIN HeaderLineTexts] : n \in 1..MaxLines }

BlockLines(b) == [i \in DOMAIN b |-> HeaderLineTexts[b[i]]]

NoParseCall == [fn |-> "none", raw |-> << >>, lines |-> << >>, result |-> Parsed0(EmptyDict)]

NoStoreCall == [fn |-> "none", section |-> "", arg |-> DefaultTabSpec("graphql"),
                result |-> DefaultTabSpec("graphql")]
NoSaved == [has |-> FALSE, spec |-> DefaultTabSpec("graphql")]

\* No direct call made.
PureIdle ==
  /\ storeCall = NoStoreCall
  /\ lastSaved = [n \in Sections \cup {""} |-> NoSaved]
  /\ docs = NoDocs
  /\ treeCall = NoTreeCall
  /\ reprCall = NoReprCall
  /\ parseCall = NoParseCall

----------------------------------------------------------------------------
(* Calls of the executor and of the tabs' send(). *)

HttpKinds == {"graphql", "http"}
Callers == HttpKinds \cup {"perform_request", "perform_http_request"}
Calls == 1..MaxCalls

NoCall == [who |-> "none", pc |-> "idle", endpoint |-> Empty, verify |-> TRUE,
           requester |-> FALSE, invoked |-> <<>>, start |-> 0, answer |-> NoAnswer,
           env |-> NoEnvelope, error |-> "", out |-> "", did |-> {}]

DoneCall == [NoCall EXCEPT !.pc = "done"]

SettleCalls(cs) == [c \in Calls |-> IF cs[c].pc = "ret" THEN DoneCall ELSE cs[c]]

\* The tabs after construction, no call made, no state file.
HttpIdle ==
  /\ clock = 0
  /\ tabs = [k \in HttpKinds |->
               [busy |-> FALSE, status |-> "", response |-> "", fields |-> DefaultFields]]
  /\ calls = [c \in Calls |-> NoCall]
  /\ stateFile = NoFile
  /\ nCalls = 0
  /\ PureIdle

\* The WebSocket tab alone: the other tabs idle, httpx imported.
HttpUnused == httpx = TRUE /\ HttpIdle

----------------------------------------------------------------------------
\* The tab after construction, its widgets' texts recorded.
Init == display = TRUE /\ InitIdle /\ HttpUnused

\* The session code writes the status and the log and never reads them:
\* InitCore starts the behaviours in which their texts are not recorded,
\* which are the same behaviours of every other variable, from the idle
\* and from the open session.
InitCore == display = FALSE /\ (InitIdle \/ InitOpen) /\ HttpUnused

\* The state as one record, with the task that holds the loop (0 for none).
State ==
  [busy |-> busy, connected |-> connected, connection |-> connection,
   recvTask |-> recvTask, status |-> status, log |-> log, tasks |-> Settle(tasks),
   rx |-> rx, ready |-> ready, running |-> 0, nOpened |-> nOpened,
   closeCalls |-> closeCalls, nMsgs |-> nMsgs, tornDown |-> tornDown]

Store(s) ==
  /\ busy' = s.busy
  /\ connected' = s.connected
  /\ connection' = s.connection
  /\ recvTask' = s.recvTask
  /\ status' = IF display THEN s.status ELSE ""
  /\ log' = IF display THEN s.log ELSE <<>>
  /\ tasks' = s.tasks
  /\ rx' = s.rx
  /\ ready' = s.ready
  /\ nOpened' = s.nOpened
  /\ closeCalls' = s.closeCalls
  /\ nMsgs' = s.nMsgs
  /\ tornDown' = s.tornDown


----------------------------------------------------------------------------
(* The code of the tasks, as steps on the state record.  Each operator is  *)
(* the set of states the named lines can leave; a step that suspends or    *)
(* ends the task releases the loop (running = 0).                          *)

RetFromConnect(s, t, out) ==
  IF s.tasks[t].inSend
    THEN [s EXCEPT !.tasks[t].pc = "s_check", !.tasks[t].inConnect = FALSE,
                   !.tasks[t].cout = out]
    ELSE [s EXCEPT !.tasks[t].pc = "ret", !.tasks[t].inConnect = FALSE,
                   !.tasks[t].cout = out, !.tasks[t].out = out, !.running = 0]

RetFromDisconnect(s, t) ==
  IF s.tasks[t].inConnect
    THEN [s EXCEPT !.tasks[t].pc = "c_call"]
    ELSE [s EXCEPT !.tasks[t].pc = "ret", !.tasks[t].out = "disconnected",
                   !.tornDown = TRUE, !.running = 0]

RetFromSend(s, t, out) ==
  [s EXCEPT !.tasks[t].pc = "ret", !.tasks[t].out = out, !.tasks[t].inSend = FALSE,
            !.running = 0]

\* connect, lines 136-164: the busy gate, the validation, busy = True, and
\* the call of disconnect().
ConnectEnter(s0, t) ==
  LET s == [s0 EXCEPT !.tornDown = FALSE]
  IN
  IF ConnectGate(s.busy) THEN { RetFromConnect(s, t, "busy") }
  ELSE { IF ConnectRejection(inp) # ""
           THEN RetFromConnect([s EXCEPT !.status = ConnectRejection(inp),
                                         !.tasks[t].inp = inp], t, "rejected")
           ELSE [s EXCEPT !.busy = TRUE,
                          !.status = WatchBusy(s.busy, TRUE, s.status),
                          !.tasks[t].pc = "d_begin",
                          !.tasks[t].inConnect = TRUE,
                          !.tasks[t].inp = inp]
         : inp \in Inputs }

\* connect, lines 165-174: the status line and the transport's connect, which
\* returns a new handle, raises, or suspends.
ConnectCall(s, t) ==
  LET s1 == [s EXCEPT !.status = "Connecting to endpoint ...",
                      !.tasks[t].did = @ \cup {"connector"}]
  IN { [s1 EXCEPT !.tasks[t].pc = "c_err"],
       [s1 EXCEPT !.tasks[t].pc = "c_wait", !.running = 0] }
     \cup (IF s.nOpened < MaxHandles
             THEN { [s1 EXCEPT !.tasks[t].pc = "c_ok", !.tasks[t].h = s.nOpened + 1,
                               !.nOpened = s.nOpened + 1] }
             ELSE {})

\* A faulty _persist_state that swallows the exception and shows nothing.
PersistStatusSilent(saved, st) == st

\* _persist_state, lines 303-308: app.save_state may raise; the tab then
\* shows a notice.
PersistStatus(saved, st) == IF saved THEN st ELSE "Could not save state."

\* What a call records of its _persist_state(): that it saved, and that
\* the save failed (for a connect() made by send(), only that it saved).
Persisted(saved) == IF saved THEN {"persist"} ELSE {"persist", "savefailed"}

\* Line 186: the handle the new receive loop is bound to.
LoopHandle(conn) == conn

\* connect, lines 169/171 and 182-186: the success path.
ConnectSuccess(s, t) ==
  LET h == s.tasks[t].h
      r == LoopHandle(h)
      st == WatchBusy(s.busy, FALSE, WatchConnected(s.connected, TRUE, s.status))
  IN { RetFromConnect(
         [s EXCEPT !.connection = h,
                   !.connected = TRUE,
                   !.busy = FALSE,
                   !.log = AppendLog(s.log, "Connected to endpoint"),
                   !.status = PersistStatus(saved, st),
                   !.recvTask = r,
                   !.rx[r] = [NoRx EXCEPT !.state = "new"],
                   !.ready = Append(s.ready, -r),
                   !.tasks[t].did = @ \cup Persisted(saved \/ s.tasks[t].inSend)],
         t, "connected")
       : saved \in BOOLEAN }

\* A faulty except clause that returns without clearing busy.
ConnectFailureKeepsBusy(s, t) ==
  LET shown == "Connect failed: error"
  IN { RetFromConnect(
         [s EXCEPT !.log = AppendLog(s.log, "Connect failed: error"),
                   !.status = shown,
                   !.tasks[t].shown = shown], t, "failed") }

\* connect, lines 175-180: the transport raised.
ConnectFailure(s, t) ==
  LET shown == "Connect failed: error"
  IN { RetFromConnect(
         [s EXCEPT !.log = AppendLog(s.log, "Connect failed: error"),
                   !.status = WatchBusy(s.busy, FALSE, shown),
                   !.busy = FALSE,
                   !.tasks[t].shown = shown], t, "failed") }

\* Task.cancel(): a task suspended on a pending await is woken with
\* CancelledError; one already in the ready queue gets it at its next step.
CancelTask(r) ==
  [r EXCEPT !.mustCancel = TRUE,
            !.state = IF r.state = "waiting" THEN "woken" ELSE r.state]

\* Line 190: the receive task disconnect() cancels and awaits, 0 for none.
TaskToAwait(task, r) == IF task # 0 /\ r[task].state # "done" THEN task ELSE 0

\* disconnect, lines 189-195: connected = False; cancel the receive task and
\* await it.
DisconnectBegin(s, t) ==
  LET r == TaskToAwait(s.recvTask, s.rx)
      s1 == [s EXCEPT !.connected = FALSE,
                      !.status = WatchConnected(s.connected, FALSE, s.status),
                      !.tasks[t].pc = "d_clear",
                      !.tasks[t].h0 = s.connection]
  IN IF r # 0
       THEN { [s1 EXCEPT !.rx[r] = [CancelTask(s.rx[r]) EXCEPT !.waiters = Append(@, t)],
                         !.ready = IF s.rx[r].state = "waiting"
                                     THEN Append(s.ready, -r) ELSE s.ready,
                         !.tasks[t].did = @ \cup {"cancel"},
                         !.running = 0] }
       ELSE { s1 }

\* Line 200: the handle disconnect() closes, 0 when it closes none.
HandleToClose(conn) == conn

\* disconnect, lines 198-202: _recv_task = None; close the connection if
\* there is one; close() returns, raises, or suspends.
DisconnectClear(s, t) ==
  LET s1 == [s EXCEPT !.recvTask = 0]
      h == HandleToClose(s.connection)
      s2 == [s1 EXCEPT !.closeCalls[h] = @ + 1,
                       !.tasks[t].h = h,
                       !.tasks[t].did = @ \cup {"close"}]
  IN IF h # 0
       THEN { [s2 EXCEPT !.tasks[t].pc = "d_closed"],
              [s2 EXCEPT !.tasks[t].pc = "d_closefail"],
              [s2 EXCEPT !.tasks[t].pc = "d_wait", !.running = 0] }
       ELSE { RetFromDisconnect(s1, t) }

\* A faulty end of disconnect() that leaves the closed handle in place.
DisconnectClosedKeepsHandle(s, t) ==
  { RetFromDisconnect(
      [s EXCEPT !.log = IF s.tasks[t].pc = "d_closed"
                          THEN AppendLog(s.log, "Disconnected.") ELSE s.log], t) }

\* disconnect, lines 203-206: the log line on success; connection = None.
DisconnectClosed(s, t) ==
  { RetFromDisconnect(
      [s EXCEPT !.log = IF s.tasks[t].pc = "d_closed"
                          THEN AppendLog(s.log, "Disconnected.") ELSE s.log,
                !.connection = 0], t) }

\* Line 212: send() calls connect() first.
NeedsConnect(conn, flag) == conn = 0 \/ ~flag

\* A faulty line 214 that never returns early.
StillNotOpenSkipped(conn, flag) == FALSE

\* Line 214: send() returns without sending.
StillNotOpen(conn, flag) == conn = 0 \/ ~flag

\* send, lines 209-213: the busy gate; the message is read; connect() first
\* when not open.
SendEnter(s, t) ==
  IF SendGate(s.busy) THEN { RetFromSend(s, t, "busy") }
  ELSE { IF NeedsConnect(s.connection, s.connected)
           THEN [s EXCEPT !.tasks[t].pc = "c_enter", !.tasks[t].inSend = TRUE,
                          !.tasks[t].msg = m,
                          !.tasks[t].did = @ \cup {"connect"}]
           ELSE [s EXCEPT !.tasks[t].pc = "s_check", !.tasks[t].msg = m]
         : m \in Messages }

\* send, lines 214-218: return when still not open, else the transport's
\* send, which returns, raises, or suspends.
SendCheck(s, t) ==
  LET s1 == [s EXCEPT !.tasks[t].h = s.connection,
                      !.tasks[t].inSend = FALSE,
                      !.tasks[t].sent = Append(@, SendPayload(s.tasks[t].msg)),
                      !.tasks[t].did = @ \cup {"send"}]
  IN IF StillNotOpen(s.connection, s.connected) THEN { RetFromSend(s, t, "notsent") }
     ELSE { [s1 EXCEPT !.tasks[t].pc = "s_ok"],
            [s1 EXCEPT !.tasks[t].pc = "s_err"],
            [s1 EXCEPT !.tasks[t].pc = "s_wait", !.running = 0] }

\* send, lines 225-227: the log line, the status, the save.
SendSuccess(s, t) ==
  { RetFromSend(
      [s EXCEPT !.log = AppendLog(s.log, SentLine(s.tasks[t].msg)),
                !.status = PersistStatus(saved, "Message sent."),
                !.tasks[t].did = @ \cup Persisted(saved)], t, "sent")
    : saved \in BOOLEAN }

\* send, lines 219-224: the transport's send raised.
SendFailure(s, t) ==
  { RetFromSend(
      [s EXCEPT !.log = AppendLog(s.log, "Send failed: error"),
                !.connected = FALSE,
                !.status = "Send failed."], t, "sendfailed") }


----------------------------------------------------------------------------
(* WebSocketTab._recv_loop, lines 272-288, as the task of handle h. *)

\* A task ends: those awaiting it join the ready queue.
TaskDone(s, h, why) ==
  [s EXCEPT !.rx[h] = [NoRx EXCEPT !.state = "done", !.why = why],
            !.ready = s.ready \o s.rx[h].waiters,
            !.running = 0]

\* The first step of the task.  A task cancelled before its first step never
\* runs its coroutine: it ends cancelled and the loop body, with its finally
\* clause, is not entered.
RecvLoopStart(s, h) ==
  IF s.rx[h].mustCancel THEN { TaskDone(s, h, "unstarted") }
  ELSE { [s EXCEPT !.rx[h].state = "head"] }

\* Line 274: the loop goes on while the session is flagged connected.
LoopCondition(flag) == flag

\* Lines 274-276: the loop test and the call of recv(), which returns a
\* message, raises, or suspends.
RecvLoopHead(s, h) ==
  IF LoopCondition(s.connected)
    THEN { [s EXCEPT !.rx[h].state = "woken", !.rx[h].res = -1],
           [s EXCEPT !.rx[h].state = "waiting", !.running = 0] }
         \cup (IF s.nMsgs < MaxMsgs
                 THEN { [s EXCEPT !.rx[h].state = "woken", !.rx[h].res = s.nMsgs + 1,
                                  !.nMsgs = s.nMsgs + 1] }
                 ELSE {})
    ELSE { [s EXCEPT !.rx[h].state = "exit", !.rx[h].why = "flag"] }

\* A faulty handler that treats CancelledError as any other error of recv().
RecvLoopResumeCatchAll(s, h) ==
  IF s.rx[h].mustCancel \/ s.rx[h].res = -1
    THEN { [s EXCEPT !.log = AppendLog(s.log, "Receive failed: error"),
                     !.connected = FALSE,
                     !.status = WatchConnected(s.connected, FALSE, s.status),
                     !.rx[h].state = "exit", !.rx[h].why = "error"] }
  ELSE { [s EXCEPT !.log = AppendLog(s.log, RecvLine(s.rx[h].res)),
                   !.rx[h].state = "head", !.rx[h].res = 0] }

\* Lines 276-285: the await of recv() ends, with CancelledError when the task
\* was cancelled, else with the transport's error or message.
RecvLoopResume(s, h) ==
  IF s.rx[h].mustCancel
    THEN { [s EXCEPT !.rx[h].state = "exit", !.rx[h].why = "cancel"] }
  ELSE IF s.rx[h].res = -1
    THEN { [s EXCEPT !.log = AppendLog(s.log, "Receive failed: error"),
                     !.connected = FALSE,
                     !.status = WatchConnected(s.connected, FALSE, s.status),
                     !.rx[h].state = "exit", !.rx[h].why = "error"] }
  ELSE { [s EXCEPT !.log = AppendLog(s.log, RecvLine(s.rx[h].res)),
                   !.rx[h].state = "head", !.rx[h].res = 0] }

\* Line 288: what the loop's finally clause leaves in self.connection.
FinallyConnection(conn, h) == 0

\* Lines 286-288: the finally clause, and the task ends.
RecvLoopFinally(s, h) ==
  { TaskDone([s EXCEPT !.connected = FALSE,
                       !.status = WatchConnected(s.connected, FALSE, s.status),
                       !.connection = FinallyConnection(s.connection, h)],
             h, s.rx[h].why) }

----------------------------------------------------------------------------
(* The event loop. *)

\* The lines the running task executes next.
Lines(s) ==
  LET t == s.running
      pc == s.tasks[t].pc
  IN IF t < 0
       THEN CASE s.rx[-t].state = "new" -> RecvLoopStart(s, -t)
              [] s.rx[-t].state = "head" -> RecvLoopHead(s, -t)
              [] s.rx[-t].state = "woken" -> RecvLoopResume(s, -t)
              [] s.rx[-t].state = "exit" -> RecvLoopFinally(s, -t)
       ELSE CASE pc = "c_enter" -> ConnectEnter(s, t)
              [] pc = "c_call" -> ConnectCall(s, t)
              [] pc = "c_ok" -> ConnectSuccess(s, t)
              [] pc = "c_err" -> ConnectFailure(s, t)
              [] pc = "d_begin" -> DisconnectBegin(s, t)
              [] pc = "d_clear" -> DisconnectClear(s, t)
              [] pc \in {"d_closed", "d_closefail"} -> DisconnectClosed(s, t)
              [] pc = "s_enter" -> SendEnter(s, t)
              [] pc = "s_check" -> SendCheck(s, t)
              [] pc = "s_ok" -> SendSuccess(s, t)
              [] pc = "s_err" -> SendFailure(s, t)

\* The task runs until it suspends or ends.
RECURSIVE Run(_)
Run(s) == IF s.running = 0 THEN {s} ELSE UNION { Run(s2) : s2 \in Lines(s) }

\* The loop takes the head of the ready queue and runs it.
Dispatch(s) == [s EXCEPT !.running = Head(s.ready), !.ready = Tail(s.ready)]

\* asyncio.create_task(self.connect() | self.disconnect() | self.send()):
\* the new task joins the ready queue.
Launch(op) ==
  /\ nLaunched < MaxTasks
  /\ nLaunched' = nLaunched + 1
  /\ tasks' = [Settle(tasks) EXCEPT ![nLaunched + 1] =
                 [NoTask EXCEPT !.op = op, !.pc = EntryPc(op)]]
  /\ ready' = Append(ready, nLaunched + 1)
  /\ tornDown' = (tornDown /\ op = "disconnect")
  /\ UNCHANGED <<busy, connected, connection, recvTask, status, log, rx, nOpened,
                 closeCalls, nMsgs, display>>
  /\ UNCHANGED <<httpVars, pureVars>>

\* The loop dispatches the head of the ready queue, which runs until it
\* suspends or ends.
RunHead ==
  /\ \E s2 \in Run(Dispatch(State)) : Store(s2)
  /\ UNCHANGED <<nLaunched, display>>
  /\ UNCHANGED <<httpVars, pureVars>>

\* One step of a task running connect().
StepConnect(t) ==
  /\ ready # <<>>
  /\ Head(ready) = t
  /\ tasks[t].op = "connect"
  /\ RunHead

\* One step of a task running disconnect().
StepDisconnect(t) ==
  /\ ready # <<>>
  /\ Head(ready) = t
  /\ tasks[t].op = "disconnect"
  /\ RunHead

\* One step of a task running send().
StepSend(t) ==
  /\ ready # <<>>
  /\ Head(ready) = t
  /\ tasks[t].op = "send"
  /\ RunHead

\* One step of the receive loop of handle h.
StepRecvLoop(h) ==
  /\ ready # <<>>
  /\ Head(ready) = -h
  /\ RunHead

\* The transport completes a suspended connect: a new handle or an error.
ConnectorComplete(t, ok) ==
  /\ tasks[t].pc = "c_wait"
  /\ ok => nOpened < MaxHandles
  /\ nOpened' = IF ok THEN nOpened + 1 ELSE nOpened
  /\ tasks' = [Settle(tasks) EXCEPT ![t].pc = IF ok THEN "c_ok" ELSE "c_err",
                                    ![t].h = IF ok THEN nOpened + 1 ELSE 0]
  /\ ready' = Append(ready, t)
  /\ UNCHANGED <<busy, connected, connection, recvTask, status, log, rx, nLaunched,
                 closeCalls, nMsgs, display, tornDown>>
  /\ UNCHANGED <<httpVars, pureVars>>

\* The transport completes a suspended close().
CloseComplete(t, ok) ==
  /\ tasks[t].pc = "d_wait"
  /\ tasks' = [Settle(tasks) EXCEPT ![t].pc = IF ok THEN "d_closed" ELSE "d_closefail"]
  /\ ready' = Append(ready, t)
  /\ UNCHANGED <<busy, connected, connection, recvTask, status, log, rx, nLaunched,
                 nOpened, closeCalls, nMsgs, display, tornDown>>
  /\ UNCHANGED <<httpVars, pureVars>>

\* The transport completes a suspended send().
SendComplete(t, ok) ==
  /\ tasks[t].pc = "s_wait"
  /\ tasks' = [Settle(tasks) EXCEPT ![t].pc = IF ok THEN "s_ok" ELSE "s_err"]
  /\ ready' = Append(ready, t)
  /\ UNCHANGED <<busy, connected, connection, recvTask, status, log, rx, nLaunched,
                 nOpened, closeCalls, nMsgs, display, tornDown>>
  /\ UNCHANGED <<httpVars, pureVars>>

\* The transport completes a suspended recv(): a message or an error.
RecvComplete(h, ok) ==
  /\ rx[h].state = "waiting"
  /\ ok => nMsgs < MaxMsgs
  /\ nMsgs' = IF ok THEN nMsgs + 1 ELSE nMsgs
  /\ rx' = [rx EXCEPT ![h].state = "woken", ![h].res = IF ok THEN nMsgs + 1 ELSE -1]
  /\ ready' = Append(ready, -h)
  /\ tasks' = Settle(tasks)
  /\ UNCHANGED <<busy, connected, connection, recvTask, status, log, nLaunched,
                 nOpened, closeCalls, display, tornDown>>
  /\ UNCHANGED <<httpVars, pureVars>>

Next ==
  \/ \E op \in Ops : Launch(op)
  \/ \E t \in Tasks : StepConnect(t)
  \/ \E t \in Tasks : StepDisconnect(t)
  \/ \E t \in Tasks : StepSend(t)
  \/ \E h \in Handles : StepRecvLoop(h)
  \/ \E t \in Tasks, ok \in BOOLEAN : ConnectorComplete(t, ok)
  \/ \E t \in Tasks, ok \in BOOLEAN : CloseComplete(t, ok)
  \/ \E t \in Tasks, ok \in BOOLEAN : SendComplete(t, ok)
  \/ \E h \in Handles, ok \in BOOLEAN : RecvComplete(h, ok)

Spec == Init /\ [][Next]_vars

SpecCore == InitCore /\ [][Next]_vars

\* The event loop runs every task that is ready, and the transport ends
\* every connect and every close it was handed: it returns or it raises.
\* Nothing is assumed of the transport's send and recv.
Fairness ==
  /\ WF_vars(\E t \in Tasks : StepConnect(t) \/ StepDisconnect(t) \/ StepSend(t))
  /\ WF_vars(\E h \in Handles : StepRecvLoop(h))
  /\ WF_vars(\E t \in Tasks, ok \in BOOLEAN : ConnectorComplete(t, ok))
  /\ \A t \in Tasks : WF_vars(\E ok \in BOOLEAN : CloseComplete(t, ok))

\* The calls made on the tab in a behaviour that is checked for progress.
MaxLiveTasks == 2

LaunchLive(op) ==
  /\ nLaunched < MaxLiveTasks
  /\ Launch(op)

NextLive ==
  \/ \E op \in Ops : LaunchLive(op)
  \/ \E t \in Tasks : StepConnect(t)
  \/ \E t \in Tasks : StepDisconnect(t)
  \/ \E t \in Tasks : StepSend(t)
  \/ \E h \in Handles : StepRecvLoop(h)
  \/ \E t \in Tasks, ok \in BOOLEAN : ConnectorComplete(t, ok)
  \/ \E t \in Tasks, ok \in BOOLEAN : CloseComplete(t, ok)
  \/ \E t \in Tasks, ok \in BOOLEAN : SendComplete(t, ok)
  \/ \E h \in Handles, ok \in BOOLEAN : RecvComplete(h, ok)

SpecLive == InitCore /\ [][NextLive]_vars /\ Fairness

----------------------------------------------------------------------------
(* Sequential use, as in `await tab.connect(); await tab.disconnect()` and *)
(* in on_unmount: the caller awaits the call directly, so the call starts  *)
(* running at once, ahead of the tasks that are ready, and the next call   *)
(* is made only after it has returned.                                     *)

Quiet == \A t \in Tasks : Settle(tasks)[t].pc \in {"idle", "done"}

Call(op) ==
  /\ Quiet
  /\ nLaunched < MaxTasks
  /\ nLaunched' = nLaunched + 1
  /\ tasks' = [Settle(tasks) EXCEPT ![nLaunched + 1] =
                 [NoTask EXCEPT !.op = op, !.pc = EntryPc(op)]]
  /\ ready' = <<nLaunched + 1>> \o ready
  /\ tornDown' = (tornDown /\ op = "disconnect")
  /\ UNCHANGED <<busy, connected, connection, recvTask, status, log, rx, nOpened,
                 closeCalls, nMsgs, display>>
  /\ UNCHANGED <<httpVars, pureVars>>

NextSeq ==
  \/ \E op \in Ops : Call(op)
  \/ \E t \in Tasks : StepConnect(t)
  \/ \E t \in Tasks : StepDisconnect(t)
  \/ \E t \in Tasks : StepSend(t)
  \/ \E h \in Handles : StepRecvLoop(h)
  \/ \E t \in Tasks, ok \in BOOLEAN : ConnectorComplete(t, ok)
  \/ \E t \in Tasks, ok \in BOOLEAN : CloseComplete(t, ok)
  \/ \E t \in Tasks, ok \in BOOLEAN : SendComplete(t, ok)
  \/ \E h \in Handles, ok \in BOOLEAN : RecvComplete(h, ok)

SpecSeq == Init /\ [][NextSeq]_vars

----------------------------------------------------------------------------
(* The executor and the tabs' send() as steps. *)

\* perform_request / perform_http_request up to the await of the transport:
\* lines 24-31 and 71-79.
PerformEnter(c, now, hx) ==
  IF ValidateUrl(c.endpoint) # ""
    THEN [c EXCEPT !.pc = "raised",
                   !.error = "ValueError('" \o ValidateUrl(c.endpoint) \o "')"]
    ELSE [c EXCEPT !.pc = "wait", !.start = now,
                   !.invoked = Append(@, SelectTransport(c.requester, hx))]

\* The executor from the end of the await: the envelope of lines 32-33 and
\* 80-81, or the transport's exception, which is not caught.
PerformResume(c, now) ==
  IF c.pc = "answered"
    THEN [c EXCEPT !.pc = "returned", !.env = Envelope(c.answer, c.start, now)]
  ELSE IF AfterRaise(c.invoked[Len(c.invoked)]) = ""
    THEN [c EXCEPT !.pc = "raised", !.error = "ConnectError('refused')"]
  ELSE [c EXCEPT !.pc = "wait",
                 !.invoked = Append(@, AfterRaise(c.invoked[Len(c.invoked)]))]

\* The end of a direct call of the executor.
ClientEnd(c) ==
  [c EXCEPT !.pc = "ret", !.out = IF c.pc = "raised" THEN "raised" ELSE "returned"]

\* send, lines 204-213 and 391-400: the except and else clauses, then the
\* finally clause: busy = False and _persist_state().
TabFinishFrom(tbs, k, i, c, written) ==
  LET tab == tbs[k]
      r == AppSaveState(stateFile, PersistArgs(k, tab.fields), written)
      shown == IF c.pc = "raised" THEN "Request failed: " \o c.error
               ELSE FormatResponse(c.env)
      st1 == IF c.pc = "raised" THEN tab.status ELSE TlsStatus(c.verify, tab.status)
      st2 == TabWatchBusy(tab.busy, FALSE, st1)
  IN /\ tabs' = [tbs EXCEPT ![k].response = shown,
                             ![k].busy = FALSE,
                             ![k].status = PersistStatus(~r.raised, st2)]
     /\ stateFile' = r.file
     /\ calls' = [SettleCalls(calls) EXCEPT ![i] =
                    [c EXCEPT !.pc = "ret",
                              !.out = IF c.pc = "raised" THEN "failed" ELSE "ok",
                              !.did = @ \cup Persisted(~r.raised)]]

\* asyncio.create_task(self.send()) of a tab, lines 220 and the HTTP tab's
\* on_button_pressed.
PressSend(k) ==
  /\ nCalls < MaxCalls
  /\ nCalls' = nCalls + 1
  /\ calls' = [SettleCalls(calls) EXCEPT ![nCalls + 1] =
                 [NoCall EXCEPT !.who = k, !.pc = "start"]]
  /\ UNCHANGED <<httpx, clock, tabs, stateFile>>
  /\ UNCHANGED <<wsVars, pureVars>>

\* A direct call of perform_request or perform_http_request, with or
\* without a requester, as the tests of the executor make.
ClientCall(fn, ep, req) ==
  /\ nCalls < MaxCalls
  /\ nCalls' = nCalls + 1
  /\ calls' = [SettleCalls(calls) EXCEPT ![nCalls + 1] =
                 [NoCall EXCEPT !.who = fn, !.pc = "start", !.endpoint = ep,
                                !.requester = req]]
  /\ UNCHANGED <<httpx, clock, tabs, stateFile>>
  /\ UNCHANGED <<wsVars, pureVars>>

\* A direct call runs to the await of the transport, or raises.
StartClient(i) ==
  /\ calls[i].pc = "start"
  /\ calls[i].who \notin HttpKinds
  /\ LET c == PerformEnter(calls[i], clock, httpx)
     IN calls' = [SettleCalls(calls) EXCEPT ![i] = IF c.pc = "raised" THEN ClientEnd(c) ELSE c]
  /\ UNCHANGED <<httpx, clock, tabs, stateFile, nCalls>>
  /\ UNCHANGED <<wsVars, pureVars>>

\* A tab's send() runs from its start: the gate, the widgets, the early
\* returns, busy = True, and the executor up to the await of the transport.
StartSend(i) ==
  /\ calls[i].pc = "start"
  /\ calls[i].who \in HttpKinds
  /\ LET k == calls[i].who
     IN IF TabSendGate(tabs[k].busy)
          THEN /\ calls' = [SettleCalls(calls) EXCEPT ![i].pc = "ret", ![i].out = "busy"]
               /\ UNCHANGED <<tabs, stateFile>>
          ELSE \E f \in TabInputs :
                 IF TabRejection(k, f) # ""
                   THEN /\ tabs' = [tabs EXCEPT ![k].fields = f,
                                                ![k].response = TabRejection(k, f)]
                        /\ calls' = [SettleCalls(calls) EXCEPT ![i].pc = "ret",
                                                               ![i].out = "rejected"]
                        /\ UNCHANGED stateFile
                   ELSE LET c == PerformEnter([calls[i] EXCEPT !.endpoint = f.endpoint,
                                                               !.verify = f.verify,
                                                               !.did = @ \cup {"dispatch"}],
                                              clock, httpx)
                            sending == [tabs EXCEPT
                                          ![k].fields = f,
                                          ![k].busy = TRUE,
                                          ![k].status = TabWatchBusy(tabs[k].busy, TRUE, @),
                                          ![k].response = "Sending request..."]
                        IN IF c.pc = "raised"
                             THEN \E written \in BOOLEAN :
                                    TabFinishFrom(sending, k, i, c, written)
                             ELSE /\ tabs' = sending
                                  /\ calls' = [SettleCalls(calls) EXCEPT ![i] = c]
                                  /\ UNCHANGED stateFile
  /\ UNCHANGED <<httpx, clock, nCalls>>
  /\ UNCHANGED <<wsVars, pureVars>>

\* The awaited transport answers.
TransportAnswer(i, a) ==
  /\ calls[i].pc = "wait"
  /\ a \in TierAnswers(calls[i].invoked[Len(calls[i].invoked)])
  /\ calls' = [SettleCalls(calls) EXCEPT ![i].pc = "answered", ![i].answer = a]
  /\ UNCHANGED <<httpx, clock, tabs, stateFile, nCalls>>
  /\ UNCHANGED <<wsVars, pureVars>>

\* The awaited transport raises.
TransportRaise(i) ==
  /\ calls[i].pc = "wait"
  /\ calls' = [SettleCalls(calls) EXCEPT ![i].pc = "failed"]
  /\ UNCHANGED <<httpx, clock, tabs, stateFile, nCalls>>
  /\ UNCHANGED <<wsVars, pureVars>>

\* A direct call resumes after the await and ends.
ResumeClient(i) ==
  /\ calls[i].pc \in {"answered", "failed"}
  /\ calls[i].who \notin HttpKinds
  /\ LET c == PerformResume(calls[i], clock)
     IN calls' = [SettleCalls(calls) EXCEPT ![i] = IF c.pc = "wait" THEN c ELSE ClientEnd(c)]
  /\ UNCHANGED <<httpx, clock, tabs, stateFile, nCalls>>
  /\ UNCHANGED <<wsVars, pureVars>>

\* A tab's send() resumes after the await and runs to its end.
ResumeSend(i) ==
  /\ calls[i].pc \in {"answered", "failed"}
  /\ calls[i].who \in HttpKinds
  /\ LET c == PerformResume(calls[i], clock)
     IN IF c.pc = "wait"
          THEN /\ calls' = [SettleCalls(calls) EXCEPT ![i] = c]
               /\ UNCHANGED <<tabs, stateFile>>
          ELSE \E written \in BOOLEAN : TabFinishFrom(tabs, calls[i].who, i, c, written)
  /\ UNCHANGED <<httpx, clock, nCalls>>
  /\ UNCHANGED <<wsVars, pureVars>>

\* The event loop's clock (loop.time()) advances while a call awaits its
\* transport (no call reads the clock otherwise).
Tick ==
  /\ clock < MaxClock
  /\ \E i \in Calls : calls[i].pc = "wait"
  /\ clock' = clock + 1
  /\ calls' = SettleCalls(calls)
  /\ UNCHANGED <<httpx, tabs, stateFile, nCalls>>
  /\ UNCHANGED <<wsVars, pureVars>>

NextHttp ==
  \/ \E k \in HttpKinds : PressSend(k)
  \/ \E fn \in Callers \ HttpKinds, ep \in Endpoints, req \in BOOLEAN : ClientCall(fn, ep, req)
  \/ \E i \in Calls : StartClient(i)
  \/ \E i \in Calls : StartSend(i)
  \/ \E i \in Calls, a \in Answers : TransportAnswer(i, a)
  \/ \E i \in Calls : TransportRaise(i)
  \/ \E i \in Calls : ResumeClient(i)
  \/ \E i \in Calls : ResumeSend(i)
  \/ Tick

\* The tabs and the executor, with or without the httpx module; the
\* WebSocket session stays as constructed.
InitHttp ==
  /\ display = TRUE
  /\ InitIdle
  /\ httpx \in BOOLEAN
  /\ HttpIdle

SpecHttp == InitHttp /\ [][NextHttp]_vars

----------------------------------------------------------------------------
(* The storage called directly: save_state and load_last_state on a state  *)
(* file of any content.                                                    *)

\* save_state(spec, section); section "" is the call without a section.
CallSaveState(section, spec) ==
  /\ stateFile' = SaveState(stateFile, spec, section)
  /\ storeCall' = [fn |-> "save", section |-> section, arg |-> spec, result |-> spec]
  /\ lastSaved' = IF section # ""
                    THEN [lastSaved EXCEPT ![section] = [has |-> TRUE, spec |-> spec]]
                    ELSE [n \in Sections \cup {""} |->
                            IF n = "" THEN [has |-> TRUE, spec |-> spec] ELSE NoSaved]
  /\ UNCHANGED <<wsVars, httpx, clock, tabs, calls, nCalls, introVars, parseCall>>

\* load_last_state(default, section)
CallLoadLastState(section, default) ==
  /\ storeCall' = [fn |-> "load", section |-> section, arg |-> default,
                   result |-> LoadLastState(stateFile, default, section)]
  /\ UNCHANGED <<wsVars, httpVars, lastSaved, introVars, parseCall>>

NextStore ==
  \/ \E n \in Sections \cup {""} : \E s \in TabSpecs(n) : CallSaveState(n, s)
  \/ \E n \in Sections \cup {""} : \E d \in TabSpecs(n) : CallLoadLastState(n, d)

InitStore ==
  /\ display = TRUE /\ InitIdle
  /\ httpx = TRUE
  /\ clock = 0
  /\ tabs = [k \in HttpKinds |->
               [busy |-> FALSE, status |-> "", response |-> "", fields |-> DefaultFields]]
  /\ calls = [c \in Calls |-> NoCall]
  /\ nCalls = 0
  /\ \E i \in DOMAIN InitialFiles : stateFile = InitialFiles[i]
  /\ PureIdle

SpecStore == InitStore /\ [][NextStore]_vars

----------------------------------------------------------------------------
(* The introspection: the Docs tab's schema load, and add_types_to_tree    *)
(* and _type_repr called directly.  A behaviour is either the Docs tab     *)
(* loading schemas or a series of direct calls.                            *)

\* DocumentationTab.load_docs from the answer of perform_request on, with
\* _populate_tree: the tree is cleared, the result built, and either the
\* message shown or the types added.  An exception of _populate_tree is
\* raised in the else clause of the try, which no except clause covers: it
\* leaves load_docs, the status still the one set before the request.
LoadDocs(response) ==
  /\ ~treeCall.called /\ ~reprCall.called
  /\ LET result == BuildIntrospectionResult(response)
     IN  docs' = [response |-> response,
                  result |-> result,
                  children |-> IF result.raised \/ ~result.success THEN << >>
                               ELSE AddTypesToTree(EmptyTree, result.types).tree.children,
                  status |-> IF result.raised THEN "Loading schema from ..."
                             ELSE result.status,
                  escaped |-> result.raised,
                  loaded |-> TRUE]
  /\ UNCHANGED <<wsVars, httpVars, storeVars, treeCall, reprCall, parseCall>>

\* add_types_to_tree(tree, types)
CallAddTypesToTree(tree, types) ==
  /\ ~docs.loaded
  /\ LET r == AddTypesToTree(tree, types)
     IN  treeCall' = [called |-> TRUE, tree |-> tree, types |-> types,
                      added |-> r.added, after |-> r.tree]
  /\ UNCHANGED <<wsVars, httpVars, storeVars, docs, reprCall, parseCall>>

\* _type_repr(node)
CallTypeRepr(node) ==
  /\ ~docs.loaded
  /\ reprCall' = [called |-> TRUE, node |-> node, repr |-> TypeRepr(node)]
  /\ UNCHANGED <<wsVars, httpVars, storeVars, docs, treeCall, parseCall>>

NextIntro ==
  \/ \E r \in Responses : LoadDocs(r)
  \/ \E i \in DOMAIN Trees : \E j \in DOMAIN TypeLists :
       CallAddTypesToTree(Trees[i], TypeLists[j])
  \/ \E i \in DOMAIN TypeNodes : CallTypeRepr(TypeNodes[i])

SpecIntro == Init /\ [][NextIntro]_vars

----------------------------------------------------------------------------
(* parsing.py called directly; a behaviour is one call. *)

\* parse_headers(raw), raw a block of lines or one of the texts.
CallParseHeaders(raw, lines) ==
  /\ parseCall.fn = "none"
  /\ parseCall' = [fn |-> "parse_headers", raw |-> raw, lines |-> lines,
                   result |-> ParseHeaders(raw)]
  /\ UNCHANGED <<wsVars, httpVars, storeVars, introVars>>

\* parse_json_object(raw)
CallParseJsonObject(raw) ==
  /\ parseCall.fn = "none"
  /\ parseCall' = [fn |-> "parse_json_object", raw |-> raw, lines |-> << >>,
                   result |-> ParseJsonObject(raw)]
  /\ UNCHANGED <<wsVars, httpVars, storeVars, introVars>>

\* The texts passed that are no blocks of header lines.
Texts ==
  [i \in 1..Len(JsonTexts) |-> JsonTexts[i].text] \o BrokenTexts \o BlankTexts
    \o <<<<" ">> \o JsonTexts[1].text \o <<"\n">>>>

NextParse ==
  \/ \E b \in HeaderBlocks : CallParseHeaders(JoinLines(BlockLines(b)), BlockLines(b))
  \/ \E i \in DOMAIN Texts : CallParseHeaders(Texts[i], <<Texts[i]>>)
  \/ \E i \in DOMAIN Texts : CallParseJsonObject(Texts[i])

SpecParse == Init /\ [][NextParse]_vars

----------------------------------------------------------------------------
(* Properties of the session. *)

\* The receive loop of handle h is alive: its task was created, has not
\* ended, and has not been cancelled.
Alive(h) == rx[h].state \in {"new", "waiting", "woken"} /\ ~rx[h].mustCancel

AliveLoops == {h \in Handles : Alive(h)}

\* Task t has just returned from a call of op made on the tab.
Returned(t, op) == tasks[t].op = op /\ tasks[t].pc = "ret"

\* Task t is dispatched by this step: it heads the ready queue and moves.
Runs(t) == ready # <<>> /\ Head(ready) = t /\ tasks'[t] # tasks[t]

IdleSession == ~connected /\ connection = 0 /\ recvTask = 0

\* Handles the transport has opened on which close() was never invoked.
Unclosed == {h \in 1..nOpened : closeCalls[h] = 0}

\* C1: after every successful connect() the session is connected with busy
\* cleared, stores exactly the handle the transport returned, and exactly one
\* receive loop is alive, the one bound to the stored handle.
C1_ConnectLeavesOneLoop ==
  \A t \in Tasks :
    Returned(t, "connect") /\ tasks[t].out = "connected" =>
      /\ connected
      /\ ~busy
      /\ connection = tasks[t].h
      /\ recvTask = connection
      /\ AliveLoops = {connection}

\* C2: under every interleaving of connect, send, disconnect and the receive
\* loop, no reachable state has two receive loops of the session alive.
C2_NoTwoLoops == Cardinality(AliveLoops) <= 1

\* C3: a disconnect() called on a session that holds a handle has, when it
\* returns, invoked close() on that handle.
C3_DisconnectClosesHandle ==
  \A t \in Tasks :
    Returned(t, "disconnect") /\ tasks[t].h0 # 0 => closeCalls[tasks[t].h0] >= 1

\* C4: in every reachable state at most one handle that the transport has
\* opened and that has not been closed exists.
C4_OneLiveHandle == Cardinality(Unclosed) <= 1

\* C5: every disconnect() made in sequence returns with connected false, no
\* handle and no receive task, no handle has close() invoked twice, and a
\* disconnect() that starts on an idle session (as the second of two calls in
\* a row does) changes nothing: flags, handle, task, status, log, transport.
C5_DisconnectIdempotent ==
  [][\A t \in Tasks :
       tasks'[t].op = "disconnect" /\ tasks'[t].pc = "ret" =>
         /\ ~connected'
         /\ connection' = 0
         /\ recvTask' = 0
         /\ \A h \in Handles : closeCalls'[h] <= 1
         /\ (IdleSession /\ tasks[t].pc = "d_begin" =>
               UNCHANGED <<busy, connected, connection, recvTask, status, log, rx,
                           nOpened, closeCalls, nMsgs>>)]_vars

\* connect(); disconnect(); disconnect() on a new tab: the first disconnect
\* closed the handle, the second has returned having cancelled and closed
\* nothing.
C5_SecondDisconnectReturned ==
  /\ nLaunched = 3
  /\ log = <<"Connected to endpoint", "Disconnected.">>
  /\ closeCalls[1] = 1
  /\ Returned(3, "disconnect")
  /\ tasks[3].did = {}

BadSchemeEndpoint(ep) == ep # Empty /\ ep.scheme \notin {"ws", "wss"}

UnsupportedSchemeTexts ==
  {"Unsupported URL scheme: invalid", "Unsupported URL scheme: missing"}

\* C6: a connect() that is not turned away by the busy gate and reads an
\* endpoint whose scheme is not ws or wss returns in the same step without
\* invoking the transport, leaves busy, connected, the handle, the receive
\* task and the transport as they were (idle when it started idle), and the
\* status reads "Unsupported URL scheme: ...".
C6_BadSchemeRejected ==
  [][\A t \in Tasks :
       /\ tasks[t].op = "connect"
       /\ tasks[t].pc = "c_enter"
       /\ Runs(t)
       /\ ~busy
       /\ BadSchemeEndpoint(tasks'[t].inp.endpoint)
       => /\ tasks'[t].pc = "ret"
          /\ tasks'[t].out = "rejected"
          /\ "connector" \notin tasks'[t].did
          /\ UNCHANGED <<busy, connected, connection, recvTask, rx, nOpened, closeCalls>>
          /\ status' \in UnsupportedSchemeTexts]_vars

C6_RejectedOnIdle ==
  /\ IdleSession
  /\ ~busy
  /\ nOpened = 0
  /\ status = "Unsupported URL scheme: invalid"
  /\ \E t \in Tasks : Returned(t, "connect") /\ tasks[t].inp.endpoint = BadScheme

\* C7: when the transport's connect raises, connect() returns with a
\* "Connect failed" line last in the log and in the status, connected and
\* busy false, no handle, no receive task, and nothing persisted.
C7_ConnectFailureReported ==
  \A t \in Tasks :
    Returned(t, "connect") /\ tasks[t].out = "failed" =>
      /\ log # <<>>
      /\ log[Len(log)] = "Connect failed: error"
      /\ status = "Connect failed: error"
      /\ ~connected
      /\ ~busy
      /\ connection = 0
      /\ recvTask = 0
      /\ "persist" \notin tasks[t].did

\* C8: a connect() that starts while busy is set returns in that step with
\* the transport not invoked and the session unchanged, and at most one
\* transport connect is outstanding at any time.
C8_BusyConnectReturns ==
  [][/\ \A t \in Tasks :
          tasks[t].op = "connect" /\ tasks[t].pc = "c_enter" /\ Runs(t) /\ busy =>
            /\ tasks'[t].pc = "ret"
            /\ tasks'[t].out = "busy"
            /\ tasks'[t].did = {}
            /\ UNCHANGED <<busy, connected, connection, recvTask, status, log, rx,
                           nOpened, closeCalls, nMsgs>>
     /\ Cardinality({t \in Tasks : tasks'[t].pc = "c_wait"}) <= 1]_vars

C8_ReturnedWhileConnecting ==
  \E t, u \in Tasks :
    /\ Returned(t, "connect")
    /\ tasks[t].out = "busy"
    /\ tasks[u].pc = "c_wait"
    /\ busy

\* The messages a step of the loop of handle h takes, in arrival order: the
\* one its recv() was completed with, then those recv() returns at once.
Taken(h) ==
  (IF rx[h].state = "woken" /\ rx[h].res > 0 /\ ~rx[h].mustCancel
     THEN <<rx[h].res>> ELSE <<>>)
  \o [i \in 1..(nMsgs' - nMsgs) |-> nMsgs + i]

ReceivedLines(ms) == [i \in 1..Len(ms) |-> "Received: " \o ToString(ms[i])]

\* C9: a step of the receive loop appends to the log one "Received" line per
\* message it takes, in arrival order, then a "Receive failed" line exactly
\* when recv raised, and nothing else; a cancelled loop ends without the
\* failure line; a loop whose recv raised leaves the session disconnected
\* and ends.
C9_RecvLoopLogs ==
  [][\A h \in Handles :
       ready # <<>> /\ Head(ready) = -h /\ rx'[h] # rx[h] =>
         /\ rx'[h].state \in {"waiting", "done"}
         /\ log' = log \o ReceivedLines(Taken(h))
                       \o (IF rx'[h].why = "error"
                             THEN <<"Receive failed: error">> ELSE <<>>)
         /\ (rx[h].mustCancel =>
               rx'[h].state = "done" /\ rx'[h].why \in {"cancel", "unstarted"})
         /\ (rx[h].state = "woken" /\ rx[h].res = -1 /\ ~rx[h].mustCancel =>
               rx'[h].state = "done" /\ rx'[h].why = "error")
         /\ (rx'[h].why = "error" => ~connected')]_vars

C9_TwoReceivedThenFailed ==
  /\ Len(log) >= 3
  /\ SubSeq(log, Len(log) - 2, Len(log))
       = <<"Received: 1", "Received: 2", "Receive failed: error">>
  /\ \E h \in Handles : rx[h].state = "done" /\ rx[h].why = "error"
  /\ ~connected

RejectionTexts ==
  UnsupportedSchemeTexts \cup
    {"Please provide an endpoint.", "Missing host in URL.",
     "Invalid header line: 'NoColonHere'",
     "Install the 'websockets' package to use this tab."}

SentLines(l) == SelectSeq(l, LAMBDA x : x \in {SentLine(m) : m \in Messages})

\* C10: a send() that passes its busy gate on a session that is not open
\* calls connect(); when that connect() was rejected or failed, the session
\* is still not open and send() returns with the transport's send not
\* invoked, no "Sent" line written, nothing persisted, and a text shown: the
\* rejection in the status or the "Connect failed" line in the log.  send()
\* returns without sending in no other case.
C10_SendNotOpen ==
  [][\A t \in Tasks :
       /\ (/\ tasks[t].op = "send"
           /\ tasks[t].pc = "s_enter"
           /\ Runs(t)
           /\ ~busy
           /\ (connection = 0 \/ ~connected)
           => "connect" \in tasks'[t].did)
       /\ (/\ tasks'[t].op = "send"
           /\ tasks'[t].pc = "ret"
           /\ tasks'[t].cout \in {"rejected", "failed"}
           => /\ connection' = 0 \/ ~connected'
              /\ tasks'[t].out = "notsent"
              /\ "send" \notin tasks'[t].did
              /\ "persist" \notin tasks'[t].did
              /\ SentLines(log') = SentLines(log)
              /\ \/ tasks'[t].cout = "rejected" /\ status' \in RejectionTexts
                 \/ /\ tasks'[t].cout = "failed"
                    /\ log' # <<>>
                    /\ log'[Len(log')] = "Connect failed: error")
       /\ (tasks'[t].op = "send" /\ tasks'[t].pc = "ret" /\ tasks'[t].out = "notsent"
           => tasks'[t].cout \in {"rejected", "failed"})]_vars

C10_NotSentAfterFailedConnect ==
  \E t \in Tasks :
    /\ Returned(t, "send")
    /\ tasks[t].out = "notsent"
    /\ tasks[t].cout = "failed"
    /\ "connector" \in tasks[t].did
    /\ log # <<>>
    /\ log[Len(log)] = "Connect failed: error"

\* C11: a send() that reaches the transport hands it the message text as
\* entered; when the transport's send raises, send() returns normally with
\* the session flagged disconnected, a "Send failed" line last in the log,
\* "Send failed." in the status, and, when it found the session open (it
\* made no connect() of its own), nothing persisted.
C11_SendVerbatimOrFailed ==
  [][\A t \in Tasks :
       tasks'[t].op = "send" /\ tasks'[t].pc = "ret" /\ tasks[t].pc # "ret" =>
         /\ tasks'[t].out \in {"busy", "notsent", "sent", "sendfailed"}
         /\ ("send" \in tasks'[t].did <=> tasks'[t].out \in {"sent", "sendfailed"})
         /\ ("send" \in tasks'[t].did =>
               tasks'[t].msg \in Messages /\ tasks'[t].sent = <<tasks'[t].msg>>)
         /\ (tasks'[t].out = "sendfailed" =>
               /\ ~connected'
               /\ log' # <<>>
               /\ log'[Len(log')] = "Send failed: error"
               /\ SentLines(log') = SentLines(log)
               /\ status' = "Send failed."
               /\ ("connect" \notin tasks'[t].did => "persist" \notin tasks'[t].did))]_vars

\* A send() on the open session whose transport send raised after a first
\* message went out: the padded text reached the transport untrimmed.
C11_SendFailedOnOpen ==
  \E t \in Tasks :
    /\ Returned(t, "send")
    /\ tasks[t].out = "sendfailed"
    /\ "connect" \notin tasks[t].did
    /\ tasks[t].sent = << <<" ", "h", "i", "\n">> >>
    /\ ~connected
    /\ connection # 0
    /\ status = "Send failed."
    /\ Len(log) >= 2
    /\ log[Len(log) - 1] = "Sent: hi"

\* C12: from the return of a disconnect() until connect() is next invoked
\* (by a connect action or from a send), the session holds no connection
\* handle and no receive loop of it is alive, also when a connect() was
\* awaiting the transport as disconnect() was called.
C12_TornDownStaysIdle == tornDown => connection = 0 /\ AliveLoops = {}

\* The calls of send() whose transport send has not completed.
SendsInFlight == {t \in Tasks : tasks[t].pc = "s_wait"}

\* C17: at most one transport send of the tab is awaited at any time: a
\* send() that starts while another awaits the transport sends nothing.
C17_OneSendInFlight == Cardinality(SendsInFlight) <= 1

----------------------------------------------------------------------------
(* Properties of the request executor and of the GraphQL and HTTP tabs. *)

\* Call i is dispatched by this step from its start.
Starts(i) == calls[i].pc = "start" /\ calls'[i] # calls[i]

\* Call i has just ended.
Ended(i) == calls[i].pc = "ret"

UnsupportedUrlErrors ==
  { "ValueError('Unsupported URL scheme: " \o x \o "')" : x \in {"ftp", "ws", "missing"} }

\* C13: a call of perform_request or perform_http_request, made directly or
\* by a tab, whose endpoint has a scheme other than http and https ends in
\* its first step with the "Unsupported URL scheme" error, no transport
\* invoked and no envelope produced.
C13_BadSchemeBeforeTransport ==
  [][\A i \in Calls :
       /\ Starts(i)
       /\ calls'[i].out \notin {"busy", "rejected"}
       /\ calls'[i].endpoint.scheme \notin {"http", "https"}
       => /\ calls'[i].pc = "ret"
          /\ calls'[i].out \in {"raised", "failed"}
          /\ calls'[i].error \in UnsupportedUrlErrors
          /\ calls'[i].invoked = <<>>
          /\ calls'[i].env = NoEnvelope]_vars

\* perform_http_request on an ftp URL with a requester given has raised
\* without calling the requester.
C13_FtpRejected ==
  \E i \in Calls :
    /\ Ended(i)
    /\ calls[i].who = "perform_http_request"
    /\ calls[i].endpoint = FtpUrl
    /\ calls[i].requester
    /\ calls[i].out = "raised"
    /\ calls[i].error = "ValueError('Unsupported URL scheme: ftp')"
    /\ calls[i].invoked = <<>>

\* The transport the fixed priority gives call i: the requester when one is
\* given, else the httpx client when the module is there, else urllib.
ByPriority(i) ==
  IF calls[i].requester THEN "requester" ELSE IF httpx THEN "httpx" ELSE "urllib"

\* C14: a call of the executor with an http or https endpoint awaits exactly
\* one transport, the one the priority gives, and when that transport
\* answers the call returns an envelope of status, text and duration_ms
\* holding the status and the text of the answer and a duration >= 0,
\* whichever transport it was.
C14_OneTransportByPriority ==
  \A i \in Calls :
    /\ calls[i].pc \in {"wait", "answered", "failed"} => calls[i].invoked = <<ByPriority(i)>>
    /\ Ended(i) /\ calls[i].out \in {"returned", "ok"} =>
          /\ calls[i].endpoint.scheme \in {"http", "https"}
          /\ calls[i].invoked = <<ByPriority(i)>>
          /\ calls[i].answer \in Answers
          /\ DOMAIN calls[i].env = {"status", "text", "duration_ms"}
          /\ calls[i].env.status = calls[i].answer.status
          /\ calls[i].env.text = calls[i].answer.text
          /\ calls[i].env.duration_ms >= 0

\* perform_request with a requester, httpx being importable, has returned
\* the requester's (200, "ok") after one tick of the clock.
C14_RequesterBeforeHttpx ==
  \E i \in Calls :
    /\ Ended(i)
    /\ httpx
    /\ calls[i].who = "perform_request"
    /\ calls[i].invoked = <<"requester">>
    /\ calls[i].env = [status |-> 200, text |-> "ok", duration_ms |-> 1000]

\* C15: no call awaits a transport a second time; when the awaited transport
\* raises, a direct call raises that error, and a tab's send() ends with
\* "Request failed: ..." in the response pane and the tab no longer busy;
\* the transports invoked never outnumber the calls made.
C15_NoRetry ==
  /\ \A i \in Calls : Len(calls[i].invoked) <= 1
  /\ Cardinality({i \in Calls : calls[i].invoked # <<>>}) <= nCalls
  /\ \A i \in Calls :
       Ended(i) /\ calls[i].error = "ConnectError('refused')" =>
         /\ calls[i].env = NoEnvelope
         /\ calls[i].who \notin HttpKinds => calls[i].out = "raised"
         /\ calls[i].who \in HttpKinds =>
               /\ calls[i].out = "failed"
               /\ tabs[calls[i].who].response = "Request failed: ConnectError('refused')"
               /\ ~tabs[calls[i].who].busy

\* The GraphQL tab's request failed in the httpx client, httpx being
\* importable: the failure is in the response pane and urllib was not tried.
C15_FailedOnce ==
  \E i \in Calls :
    /\ Ended(i)
    /\ calls[i].who = "graphql"
    /\ calls[i].out = "failed"
    /\ calls[i].invoked = <<"httpx">>
    /\ tabs["graphql"].response = "Request failed: ConnectError('refused')"

\* The calls of tab k's send() that are between dispatch and completion.
InFlight(k) == {i \in Calls : calls[i].who = k /\ calls[i].pc \in {"wait", "answered", "failed"}}

\* C16: a tab has at most one request in flight and is busy exactly while
\* it has one; a send() that starts while the tab is busy returns in that
\* step without calling the executor and without touching the tab; a send()
\* that dispatched a request leaves busy cleared when it ends, whether the
\* request succeeded or raised.
C16_OneRequestPerTab ==
  [][\A k \in HttpKinds :
       /\ Cardinality(InFlight(k)') <= 1
       /\ tabs'[k].busy <=> InFlight(k)' # {}
       /\ \A i \in Calls :
            /\ (Starts(i) /\ calls[i].who = k /\ tabs[k].busy =>
                  /\ calls'[i].pc = "ret"
                  /\ calls'[i].out = "busy"
                  /\ calls'[i].invoked = <<>>
                  /\ UNCHANGED <<tabs, stateFile>>)
            /\ (calls'[i].who = k /\ calls'[i].pc = "ret" /\ calls'[i].out \in {"ok", "failed"} =>
                  ~tabs'[k].busy)]_vars

\* A second send() of the HTTP tab has returned at the gate while the
\* first awaits its transport.
C16_IgnoredWhileInFlight ==
  \E i, j \in Calls :
    /\ calls[i].who = "http"
    /\ calls[i].pc = "wait"
    /\ Ended(j)
    /\ calls[j].who = "http"
    /\ calls[j].out = "busy"
    /\ tabs["http"].busy
    /\ tabs["http"].response = "Sending request..."

\* C18: when a tab's send() ends after a successful request made with TLS
\* verification off, the tab's status line shows the warning.
C18_TlsWarningStays ==
  \A i \in Calls :
    Ended(i) /\ calls[i].out = "ok" /\ ~calls[i].verify =>
      tabs[calls[i].who].status = TlsWarning

\* The section of the state file a tab saves under.
SectionOf(k) == k

\* C19: when a GraphQL or HTTP send() that reached the transport ends,
\* loading the tab's section of the state file gives the tab's current
\* field values.
C19_SendSavesFields ==
  \A i \in Calls :
    Ended(i) /\ calls[i].who \in HttpKinds /\ calls[i].invoked # <<>> =>
      LoadLastState(stateFile, DefaultFields, SectionOf(calls[i].who))
        = tabs[calls[i].who].fields

NoticeOfSave == "Could not save state."

SessionSaveFailureHarmless ==
  \A t \in Tasks :
    (/\ tasks[t].pc = "ret"
     /\ "savefailed" \in tasks[t].did
     /\ "connect" \notin tasks[t].did
     /\ tasks[t].out \in {"connected", "sent"}) =>
      /\ status = NoticeOfSave
      /\ tasks[t].out = "connected" =>
            /\ ~busy
            /\ connected
            /\ connection = tasks[t].h
            /\ recvTask = connection
            /\ rx[connection].state = "new"
            /\ log[Len(log)] = "Connected to endpoint"
      /\ tasks[t].out = "sent" => log[Len(log)] = "Sent: hi"

----------------------------------------------------------------------------
(* The state store. *)

\* The document in the file, when the file holds a JSON object.
HasDocument(file) == file.exists /\ file.parses /\ IsDict(file.data)
Document(file) == file.data.v

\* The document has an object under the section name.
HasSection(file, n) ==
  HasDocument(file) /\ n \in DOMAIN Document(file) /\ IsDict(Document(file)[n])

\* C21: a load under a section returns, on every field, the spec last saved
\* under that section, whatever default of the same class is passed and
\* whatever was saved under other sections before or in between.
C21_SaveThenLoad ==
  (storeCall.fn = "load" /\ lastSaved[storeCall.section].has)
    => /\ DOMAIN storeCall.result = DOMAIN lastSaved[storeCall.section].spec
       /\ \A k \in DOMAIN storeCall.result :
            storeCall.result[k] = lastSaved[storeCall.section].spec[k]

\* A load under "http" with a default that differs from the spec saved there,
\* the graphql section saved too.
C21_LoadedOverOtherDefault ==
  /\ storeCall.fn = "load" /\ storeCall.section = "http"
  /\ lastSaved["http"].has /\ lastSaved["graphql"].has
  /\ storeCall.arg # lastSaved["http"].spec
  /\ storeCall.result = lastSaved["http"].spec

\* C22: a load from a file that is missing, is not JSON or holds JSON that is
\* not an object returns the default it was given and leaves the file as it
\* was.
C22_UnusableFileGivesDefault ==
  [][(/\ storeCall' # storeCall
      /\ storeCall'.fn = "load"
      /\ ~HasDocument(stateFile))
       => (storeCall'.result = storeCall'.arg /\ stateFile' = stateFile)]_vars

\* A load from a file whose JSON is a list returned the default.
C22_LoadedFromList ==
  /\ storeCall.fn = "load" /\ stateFile = ListFile
  /\ storeCall.arg = EditedTabSpec("graphql")
  /\ storeCall.result = storeCall.arg

\* C23: a save under a section leaves every other key of an existing valid
\* document as it was, and after the save every section holds the spec last
\* saved under it.
C23_OtherSectionsKept ==
  [][/\ (/\ storeCall' # storeCall
         /\ storeCall'.fn = "save"
         /\ storeCall'.section # ""
         /\ HasDocument(stateFile))
          => \A k \in DOMAIN Document(stateFile) \ {storeCall'.section} :
               /\ HasDocument(stateFile')
               /\ k \in DOMAIN Document(stateFile')
               /\ Document(stateFile')[k] = Document(stateFile)[k]
     /\ \A n \in Sections :
          lastSaved'[n].has
            => /\ HasSection(stateFile', n)
               /\ Document(stateFile')[n] = Dict(SpecToDict(lastSaved'[n].spec))]_vars

\* Two sections saved into the document edited by hand, whose other keys
\* are still there.
C23_TwoSectionsAndOldKeys ==
  /\ storeCall.fn = "save"
  /\ lastSaved["graphql"].has /\ lastSaved["websocket"].has
  /\ HasDocument(stateFile)
  /\ {"theme", "headers", "http"} \subseteq DOMAIN Document(stateFile)
  /\ Document(stateFile)["theme"] = Other("dark")

\* C24 as stated: a load under a section name the document has no object
\* under returns the default unchanged, "graphql" included.
C24_MissingSectionGivesDefault ==
  (/\ storeCall.fn = "load"
   /\ storeCall.section # ""
   /\ ~HasSection(stateFile, storeCall.section))
    => storeCall.result = storeCall.arg

\* C24: a load under a section name the document has no object under returns
\* the default unchanged for every name but "graphql"; for "graphql" each
\* field of the default is replaced by the value of the document's top-level
\* key of that name, when there is one.
C24_MissingSectionLegacy ==
  (/\ storeCall.fn = "load"
   /\ storeCall.section # ""
   /\ ~HasSection(stateFile, storeCall.section))
    => IF storeCall.section = "graphql"
         THEN /\ DOMAIN storeCall.result = DOMAIN storeCall.arg
              /\ \A k \in DOMAIN storeCall.arg :
                   storeCall.result[k] =
                     IF HasDocument(stateFile) /\ k \in DOMAIN Document(stateFile)
                       THEN Document(stateFile)[k].v ELSE storeCall.arg[k]
         ELSE storeCall.result = storeCall.arg

\* A load under "graphql" from a document written without a section: the
\* fields come from the document, not from the default.
C24_LegacyDocumentLoaded ==
  /\ storeCall.fn = "load" /\ storeCall.section = "graphql"
  /\ lastSaved[""].has
  /\ ~HasSection(stateFile, "graphql")
  /\ storeCall.result = lastSaved[""].spec
  /\ storeCall.result # storeCall.arg

----------------------------------------------------------------------------
(* The introspection builder. *)

\* Of the statuses build_introspection_result composes, the one that
\* contains "HTTP <code>" (the messages of json.loads do not).
HttpStatus(code) == "HTTP " \o ToString(code)

\* C25: a response whose HTTP status is not 200 gives success = false and a
\* status with "HTTP <code>" in it, whatever its body.
C25_Non200GivesHttpStatus ==
  (docs.loaded /\ docs.response.status # 200)
    => /\ ~docs.result.raised
       /\ ~docs.result.success
       /\ docs.result.status = HttpStatus(docs.response.status)

\* The failure checks in the order of the claim, each on the response alone.
Unparseable(r) == ~r.parses
Non200(r) == r.status # 200
HasErrors(r) == IsDict(r.json) /\ "errors" \in DOMAIN r.json.v /\ Truthy(r.json.v["errors"])

\* data.__schema.types of the body, Null when a step of the path is absent,
\* null or not an object.
Member(j, key) == IF IsDict(j) /\ key \in DOMAIN j.v THEN j.v[key] ELSE Null
SchemaTypes(r) == Member(Member(Member(r.json, "data"), "__schema"), "types")
NoSchemaTypes(r) == ~Truthy(SchemaTypes(r))

\* A raw type the filter keeps: an object whose kind is one of the three and
\* whose name is there and does not start with "__".
Wanted(t) ==
  /\ IsDict(t)
  /\ Member(t, "kind").t = "str" /\ Member(t, "kind").v \in {"OBJECT", "INTERFACE", "INPUT_OBJECT"}
  /\ Member(t, "name").t = "str" /\ Len(Member(t, "name").v) > 0
  /\ ~(Len(Member(t, "name").v) >= 2 /\ SubSeq(Member(t, "name").v, 1, 2) = <<"_", "_">>)

WantedTypes(r) ==
  IF SchemaTypes(r).t = "list" THEN SelectSeq(SchemaTypes(r).v, Wanted) ELSE << >>

\* The first check of the claim's order that applies: its status, "none"
\* when no check applies.
FirstCheck(r) ==
  IF Unparseable(r) THEN "unparseable"
  ELSE IF Non200(r) THEN HttpStatus(r.status)
  ELSE IF HasErrors(r) THEN "GraphQL errors"
  ELSE IF NoSchemaTypes(r) THEN "No types returned from schema."
  ELSE IF WantedTypes(r) = << >> THEN "Schema loaded but no object/interface/input types."
  ELSE "none"

StatusOfFirstCheck(res, r) ==
  /\ res.success = (FirstCheck(r) = "none")
  /\ CASE FirstCheck(r) = "unparseable" -> res.status = "Could not parse JSON: " \o r.error
       [] FirstCheck(r) = "none" -> TRUE
       [] OTHER -> res.status = FirstCheck(r)

\* C26: the result carries the status of the first failure check that
\* applies to the response, in the order unparseable body, status other than
\* 200, errors, no types, no type left by the filter; it is a success exactly
\* when none applies.
C26_FirstCheckDecides ==
  docs.loaded => (~docs.result.raised /\ StatusOfFirstCheck(docs.result, docs.response))

\* The order of the checks on every response for which the function returns.
FirstCheckDecidesOnReturn ==
  (docs.loaded /\ ~docs.result.raised) => StatusOfFirstCheck(docs.result, docs.response)

\* C27: build_introspection_result raises on no response, and no exception
\* leaves the schema load of the Docs tab.
C27_NeverRaises ==
  docs.loaded => (~docs.result.raised /\ ~docs.escaped /\ docs.status = docs.result.status)

\* C28: on success the types are the wanted raw types in their order, the
\* status counts them and the details list the first 50 names at most.
C28_FilteredTypes ==
  (docs.loaded /\ docs.result.success)
    => LET wanted == WantedTypes(docs.response)
           types == docs.result.types
           lines == docs.result.details.lines
           listed == IF Len(types) < 50 THEN Len(types) ELSE 50
       IN  /\ Len(types) = Len(wanted)
           /\ \A i \in 1..Len(types) :
                /\ types[i].name = wanted[i].v["name"].v
                /\ types[i].kind = wanted[i].v["kind"].v
           /\ docs.result.status = "Schema loaded: " \o ToString(Len(types)) \o " types."
           /\ Len(lines) = 2 + listed
           /\ lines[1] = docs.result.status
           /\ \A i \in 1..listed : lines[2 + i] = Text(types[i].name)

\* A schema of 52 raw types, 51 of them wanted: 51 types, 50 names listed.
C28_MoreTypesThanListed ==
  /\ docs.loaded /\ docs.result.success
  /\ Len(SchemaTypes(docs.response).v) = 52
  /\ Len(docs.result.types) = 51
  /\ Len(docs.result.details.lines) = 52
  /\ docs.result.status = "Schema loaded: 51 types."

\* A node that wraps a type: its kind and an ofType that is there.
Wraps(node, kind) ==
  IsDict(node) /\ Member(node, "kind") = Str(kind) /\ Truthy(Member(node, "ofType"))

\* C29: _type_repr gives "Unknown" for a null or absent node, the inner
\* representation with "!" for a NON_NULL wrapper, in brackets for a LIST
\* wrapper, and for any other node its name, else its kind, else "Unknown";
\* NON_NULL(LIST(SCALAR String)) gives "[String]!".
C29_TypeReprStructural ==
  reprCall.called =>
    LET node == reprCall.node
        repr == reprCall.repr
    IN  /\ IF ~Truthy(node) THEN repr = "Unknown"
           ELSE IF Wraps(node, "NON_NULL") THEN repr = TypeRepr(node.v["ofType"]) \o "!"
           ELSE IF Wraps(node, "LIST") THEN repr = "[" \o TypeRepr(node.v["ofType"]) \o "]"
           ELSE IF Truthy(Member(node, "name")) THEN repr = node.v["name"].v
           ELSE IF Truthy(Member(node, "kind")) THEN repr = node.v["kind"].v
           ELSE repr = "Unknown"
        /\ (node = Wrapper("NON_NULL", Wrapper("LIST", StringType)) => repr = "[String]!")

\* _type_repr called on NON_NULL(LIST(NON_NULL(OBJECT User))).
C29_NestedWrappers ==
  /\ reprCall.called
  /\ reprCall.node =
       Wrapper("NON_NULL", Wrapper("LIST", Wrapper("NON_NULL", Named("OBJECT", "User"))))
  /\ reprCall.repr = "[User!]!"

\* The kinds in lower case.
LowerCased == [OBJECT |-> "object", INTERFACE |-> "interface", INPUT_OBJECT |-> "input_object"]

\* C30: add_types_to_tree adds, after what the root holds, one node per type
\* in the order given, labelled "<name> (<kind in lower case>)" with the
\* description, and under it one node per field in order, labelled
\* "<name>: <type>" with description, type and arguments; it returns the
\* number of types, and 0 with nothing added when the sink has no root.
C30_OneNodePerType ==
  treeCall.called =>
    LET types == treeCall.types
        before == treeCall.tree.children
        after == treeCall.after.children
    IN  IF ~treeCall.tree.root
          THEN treeCall.added = 0 /\ treeCall.after = treeCall.tree
          ELSE /\ treeCall.added = Len(types)
               /\ Len(after) = Len(before) + Len(types)
               /\ SubSeq(after, 1, Len(before)) = before
               /\ \A i \in 1..Len(types) :
                    LET node == after[Len(before) + i] IN
                    /\ node.label = Text(types[i].name) \o " (" \o LowerCased[types[i].kind] \o ")"
                    /\ node.data = [description |-> types[i].description]
                    /\ Len(node.children) = Len(types[i].fields)
                    /\ \A j \in 1..Len(node.children) :
                         LET field == types[i].fields[j] IN
                         /\ node.children[j].label = field.name \o ": " \o field.type_repr
                         /\ node.children[j].data =
                              [description |-> field.description, type |-> field.type_repr,
                               args_str |-> field.args_str]

\* Three types added to a root that had a child; the last has two fields.
C30_ThreeTypesAdded ==
  /\ treeCall.called /\ treeCall.added = 3
  /\ Len(treeCall.after.children) = 4
  /\ treeCall.after.children[4].label = "Query (object)"
  /\ Len(treeCall.after.children[4].children) = 2
  /\ treeCall.after.children[4].children[2].label = "users: [User]!"
  /\ treeCall.after.children[4].children[2].data.args_str = "first: Int!, after: Unknown"

----------------------------------------------------------------------------
(* Header and body parsing. *)

\* The lines of a block that are not blank, by position.
NonBlank(lines) == {i \in 1..Len(lines) : Strip(lines[i]) # << >>}

\* The position of the first colon of a line, the key before it and the
\* value after it, both trimmed.
FirstColon(line) ==
  CHOOSE i \in 1..Len(line) : line[i] = ":" /\ \A j \in 1..(i - 1) : line[j] # ":"
KeyOf(line) == Text(Strip(SubSeq(line, 1, FirstColon(line) - 1)))
ValueOf(line) == Text(Strip(SubSeq(line, FirstColon(line) + 1, Len(line))))

\* The error names the line: as it stands in the block, or without the
\* blanks the block's own trimming took from its ends.
NamesLine(error, line) ==
  \E l \in {line, LStrip(line), RStrip(line), Strip(line)} :
    error = "Invalid header line: " \o Repr(l)

\* C31: of a header block that is not JSON, every non-blank line is split on
\* its first colon into a trimmed key and a trimmed value, the last line of a
\* key giving its value; a non-blank line without a colon fails the whole
\* parse with "Invalid header line" and that line, and no mapping is returned.
C31_HeaderLines ==
  (/\ parseCall.fn = "parse_headers"
   /\ JsonLoadsText(Strip(parseCall.raw)).raised)
    => LET lines == parseCall.lines
           res == parseCall.result
           bad == {i \in NonBlank(lines) : \A j \in 1..Len(lines[i]) : lines[i][j] # ":"}
       IN  IF bad # {}
             THEN /\ res.raised
                  /\ res.value = EmptyDict
                  /\ NamesLine(res.error, lines[CHOOSE i \in bad : \A j \in bad : i <= j])
             ELSE /\ ~res.raised
                  /\ DOMAIN res.value = {KeyOf(lines[i]) : i \in NonBlank(lines)}
                  /\ \A i \in NonBlank(lines) :
                       (\A j \in NonBlank(lines) : j > i => KeyOf(lines[j]) # KeyOf(lines[i]))
                         => res.value[KeyOf(lines[i])] = ValueOf(lines[i])

\* "A: 1", " B : x:y " and "A:2" parsed: A is "2", B is "x:y".
C31_DuplicateKeyLastWins ==
  /\ parseCall.fn = "parse_headers" /\ Len(parseCall.lines) = 3
  /\ ~parseCall.result.raised
  /\ DOMAIN parseCall.result.value = {"A", "B"}
  /\ parseCall.result.value["A"] = "2"
  /\ parseCall.result.value["B"] = "x:y"

\* C32: parse_json_object gives an empty mapping for a blank input and for
\* "{}", the parsed mapping for a JSON object, and raises, returning nothing,
\* for JSON that is no object and for a text that is not JSON.
C32_ObjectOrError ==
  parseCall.fn = "parse_json_object" =>
    LET text == Strip(parseCall.raw)
        res == parseCall.result
        known == {i \in DOMAIN JsonTexts : JsonTexts[i].text = text}
    IN  IF text = << >> THEN ~res.raised /\ res.value = EmptyDict
        ELSE IF \E i \in known : IsDict(JsonTexts[i].json)
          THEN /\ ~res.raised
               /\ \A i \in known : res.value = JsonTexts[i].json.v
        ELSE res.raised /\ res.error # "" /\ res.value = EmptyDict

\* parse_json_object raised on a JSON list.
C32_ListRejected ==
  /\ parseCall.fn = "parse_json_object"
  /\ parseCall.raw = JsonTexts[4].text
  /\ parseCall.result.raised
  /\ parseCall.result.error = "Expected a JSON object."

----------------------------------------------------------------------------
(* Further properties of the session. *)

\* The input of a connect() fails one of the checks of lines 142-161.
FailsValidation(inp) ==
  \/ inp.endpoint = Empty
  \/ inp.endpoint.scheme \notin {"ws", "wss"}
  \/ inp.endpoint.netloc = ""
  \/ inp.headers = "nocolon"
  \/ ~inp.transport

\* Task t enters connect() in this step, called on the tab or by send(),
\* and passes the busy gate.
EntersConnect(t) ==
  /\ Runs(t)
  /\ ~busy
  /\ \/ tasks[t].op = "connect" /\ tasks[t].pc = "c_enter"
     \/ tasks[t].op = "send" /\ tasks[t].pc = "s_enter" /\ "connect" \in tasks'[t].did

\* C33: a connect() whose input fails validation (empty endpoint, scheme not
\* ws or wss, missing host, unparseable headers, no transport) returns in
\* the same step as rejected, without invoking the transport and without
\* setting busy, and leaves the handle, the connected flag, the receive task
\* and every receive loop as they were, also when the session is open.
C33_RejectedConnectChangesNothing ==
  [][\A t \in Tasks :
       EntersConnect(t) /\ FailsValidation(tasks'[t].inp) =>
         /\ tasks'[t].pc = "ret"
         /\ tasks'[t].cout = "rejected"
         /\ "connector" \notin tasks'[t].did
         /\ UNCHANGED <<busy, connected, connection, recvTask, rx, nOpened,
                        closeCalls, nMsgs>>]_vars

C33_RejectedOnOpenSession ==
  /\ connected
  /\ connection = 1
  /\ recvTask = 1
  /\ rx[1].state = "waiting"
  /\ ~busy
  /\ closeCalls[1] = 0
  /\ \E t \in Tasks :
       /\ Returned(t, "connect")
       /\ tasks[t].out = "rejected"
       /\ tasks[t].inp = [endpoint |-> WsOk, headers |-> "lines", transport |-> FALSE]

----------------------------------------------------------------------------
(* Further properties of the tabs. *)

\* The widgets of the GraphQL tab fail one of the checks of lines 178-195.
FailsTabValidation(f) ==
  \/ f.endpoint = Empty
  \/ f.query = ""
  \/ f.variables = "array"
  \/ f.headers = "nocolon"

GraphQLRejectionTexts ==
  {"Please provide an endpoint URL.",
   "Query is empty. Add a GraphQL query or mutation.",
   "Variables are not valid JSON:\nExpected a JSON object.",
   "Invalid header line: 'NoColonHere'"}

\* C34: a send() of the GraphQL tab that passes the busy gate and reads
\* widgets that fail validation (empty endpoint, empty query, variables that
\* are not a JSON object, invalid header block) returns in that step as
\* rejected: the response pane shows the message of the failed check, no
\* transport is invoked, busy stays clear and the state file is not written.
C34_RejectedSendDoesNoIO ==
  [][\A i \in Calls :
       /\ Starts(i)
       /\ calls[i].who = "graphql"
       /\ ~tabs["graphql"].busy
       /\ FailsTabValidation(tabs'["graphql"].fields)
       => /\ calls'[i].pc = "ret"
          /\ calls'[i].out = "rejected"
          /\ calls'[i].invoked = <<>>
          /\ calls'[i].did = {}
          /\ tabs'["graphql"].response \in GraphQLRejectionTexts
          /\ ~tabs'["graphql"].busy
          /\ tabs'["graphql"].status = tabs["graphql"].status
          /\ UNCHANGED <<stateFile, httpx, clock>>]_vars

\* A send() of the GraphQL tab was rejected for its header block alone,
\* after an earlier send() of the tab had dispatched a request and ended.
C34_RejectedForHeaders ==
  /\ tabs["graphql"].status = "Could not save state."
  /\ tabs["graphql"].response = "Invalid header line: 'NoColonHere'"
  /\ tabs["graphql"].fields.variables = ""
  /\ ~tabs["graphql"].busy
  /\ \E i \in Calls :
       /\ Ended(i)
       /\ calls[i].who = "graphql"
       /\ calls[i].out = "rejected"

----------------------------------------------------------------------------
(* The flags, the handle and the receive loops under every interleaving. *)

\* C35: in every reachable state a session flagged connected holds a handle,
\* and no step clears or replaces the handle of a session that is flagged
\* connected before it and after it.
C35_ConnectedHoldsHandle ==
  [][/\ connected' => connection' # 0
     /\ connected /\ connected' => connection' = connection]_vars

\* Task t is inside a connect() or a disconnect(), from the creation of the
\* task to the return of the call.
InConnectOrDisconnect(t) ==
  /\ tasks[t].pc \notin {"idle", "done", "ret"}
  /\ tasks[t].op \in {"connect", "disconnect"} \/ tasks[t].inConnect

NoCallInProgress == \A t \in Tasks : ~InConnectOrDisconnect(t)

ReceivedCount(l) == Len(SelectSeq(l, LAMBDA x : x \in {RecvLine(m) : m \in 1..MaxMsgs}))

\* C36: whenever the session is flagged disconnected and no connect() or
\* disconnect() is in progress, it holds no handle and no receive loop is
\* alive, and a step taken from such a state logs no "Received" line; this
\* also after the transport's send has failed.
C36_DisconnectedIsIdle ==
  [][/\ (~connected' /\ NoCallInProgress' => connection' = 0 /\ AliveLoops' = {})
     /\ (~connected /\ NoCallInProgress => ReceivedCount(log') = ReceivedCount(log))]_vars

\* The receive loop of handle h ends in this step through its finally
\* clause (a task cancelled before its first step never enters it).
LoopCleansUp(h) ==
  /\ rx[h].state # "done"
  /\ rx'[h].state = "done"
  /\ rx'[h].why # "unstarted"

\* C37: whenever a receive loop ends through its finally clause, which
\* resets the connected flag and the stored handle, the handle stored as the
\* step begins is the loop's own handle or none, never a newer one.
C37_CleanupOwnHandle ==
  [][\A h \in Handles : LoopCleansUp(h) => connection \in {0, h}]_vars

\* Task t returns in this step from a connect() that had set busy: the
\* success path or the failure path, of a call made on the tab or by send().
ConnectPathEnds(t) ==
  /\ tasks[t].inConnect
  /\ ~tasks'[t].inConnect
  /\ tasks'[t].cout \in {"connected", "failed"}

\* C38: a connect() that set busy leaves it cleared when it returns, on the
\* success path and on the failure path, and whenever busy is set it is
\* eventually cleared, the transport's connect and close each eventually
\* returning or raising.
C38_BusyEventuallyCleared ==
  /\ [][\A t \in Tasks : ConnectPathEnds(t) => ~busy']_vars
  /\ (busy ~> ~busy)

\* A connect() has failed after it awaited the transport, and busy is clear.
C38_FailedAfterWaiting ==
  /\ ~busy
  /\ \E t \in Tasks :
       /\ Returned(t, "connect")
       /\ tasks[t].out = "failed"
       /\ "connector" \in tasks[t].did
       /\ "close" \in tasks[t].did

----------------------------------------------------------------------------
(* The save without a section. *)

\* The last save named no section, or sections were saved only before it.
FlatSaved == lastSaved[""].has /\ \A n \in Sections : ~lastSaved[n].has

\* C39: a save_state without a section leaves a document that is exactly
\* the fields of the saved spec, whatever sections the file held; until the
\* next save a load under http or websocket returns the default it was
\* given, and a load under graphql or under no section returns the saved
\* spec.
C39_FlatSaveReplacesDocument ==
  [][/\ (storeCall'.fn = "save" /\ storeCall'.section = ""
          => /\ HasDocument(stateFile')
             /\ Document(stateFile') = SpecToDict(storeCall'.arg)
             /\ \A n \in Sections : ~HasSection(stateFile', n))
     /\ (FlatSaved' /\ storeCall'.fn = "load"
          => /\ (storeCall'.section \in {"http", "websocket"}
                   => storeCall'.result = storeCall'.arg)
             /\ (storeCall'.section \in {"graphql", ""}
                   => storeCall'.result = lastSaved'[""].spec))]_vars

\* After a save without a section, a load under graphql with another
\* default returned the saved spec.
C39_GraphqlLoadedFromFlat ==
  /\ FlatSaved
  /\ storeCall.fn = "load"
  /\ storeCall.section = "graphql"
  /\ storeCall.arg = DefaultTabSpec("graphql")
  /\ storeCall.result = EditedTabSpec("graphql")
  /\ \A n \in Sections : ~HasSection(stateFile, n)

====
